---- MODULE Spec2Model ----
(***************************************************************************)
(* Model of the catalog service of api-redis-cache: the cache-key builder, *)
(* the Redis adapter (RedisCache) and the catalog read / write handlers.   *)
(*                                                                         *)
(* Python text is modelled as a sequence of one-character strings, so that *)
(* concatenation, sorting and glob matching are computed character by      *)
(* character.  Python values are tagged records [t, n, s, c]:              *)
(*   t = "none" | "bool" | "int" | "str" | "dec" | "list" | "dict" | "item" *)
(*   n = the integer of an int, s = the text of a str / Decimal / dict key *)
(*   c = the children of a list, the items of a dict, the value of an item *)
(*                                                                         *)
(* The specifications share the variables:                                 *)
(*   Spec          the catalog handlers over Redis and the database        *)
(*   SpecAdapter   calls of the operations of RedisCache                   *)
(*   SpecKey       generate_cache_key applied to pairs of filter mappings  *)
(*   SpecDegraded  the handlers, and adapter calls made while Redis is     *)
(*                 out of reach                                            *)
(*   SpecHeal      reads over a keyspace that other clients write to       *)
(*   SpecOutage    the handlers while Redis and the database come and go   *)
(*   SpecWrite     POST /catalog, accepted and refused                     *)
(***************************************************************************)
EXTENDS Integers, Sequences, FiniteSets, TLC

\* ------------------------------------------------------------------ bounds

\* Largest number of entries in a filter mapping handed to the key builder.
MaxFields == 2

\* ------------------------------------------------------------------- text

\* The characters used by the model, in code-point order.
Alphabet ==
    << "&", "*", "-", ".", "0", "1", "2", "3", "4", "5", "6", "7", "8", "9",
       ":", "=", "?", "A", "N", "P", "[", "\\", "]", "^", "_",
       "a", "b", "c", "d", "e", "g", "h", "i", "l", "m", "n", "o", "p",
       "r", "s", "t", "u", "v", "x", "y" >>

CharOrd(ch) == CHOOSE i \in 1..Len(Alphabet) : Alphabet[i] = ch

\* Python's str < str: lexicographic by code point.
RECURSIVE StrLess(_, _)
StrLess(a, b) ==
    IF b = <<>> THEN FALSE
    ELSE IF a = <<>> THEN TRUE
    ELSE IF Head(a) = Head(b) THEN StrLess(Tail(a), Tail(b))
    ELSE CharOrd(Head(a)) < CharOrd(Head(b))

Digits == << "0", "1", "2", "3", "4", "5", "6", "7", "8", "9" >>

RECURSIVE NatToStr(_)
NatToStr(n) ==
    IF n < 10 THEN << Digits[n + 1] >>
    ELSE NatToStr(n \div 10) \o << Digits[(n % 10) + 1] >>

\* str(int)
IntToStr(n) == IF n < 0 THEN << "-" >> \o NatToStr(0 - n) ELSE NatToStr(n)

\* String literals of the source.
S_catalog == << "c", "a", "t", "a", "l", "o", "g" >>
S_ns == << "n", "s" >>
S_all == << "a", "l", "l" >>
S_None == << "N", "o", "n", "e" >>
S_game_title == << "g", "a", "m", "e", "_", "t", "i", "t", "l", "e" >>
S_behavior_name ==
    << "b", "e", "h", "a", "v", "i", "o", "r", "_", "n", "a", "m", "e" >>
S_user_id == << "u", "s", "e", "r", "_", "i", "d" >>
S_limit == << "l", "i", "m", "i", "t" >>
S_Portal == << "P", "o", "r", "t", "a", "l" >>
S_port == << "p", "o", "r", "t" >>
S_play == << "p", "l", "a", "y" >>
S_Portal_amp_limit == S_Portal \o << "&" >> \o S_limit \o << "=" >> \o IntToStr(10000)

\* ----------------------------------------------------------- Python values

PyNone == [t |-> "none", n |-> 0, s |-> <<>>, c |-> <<>>]
PyInt(i) == [t |-> "int", n |-> i, s |-> <<>>, c |-> <<>>]
PyStr(x) == [t |-> "str", n |-> 0, s |-> x, c |-> <<>>]
PyBool(b) == [t |-> "bool", n |-> IF b THEN 1 ELSE 0, s |-> <<>>, c |-> <<>>]
\* str(d) of a Decimal of two decimal places that is not negative
DecText(cents) ==
    NatToStr(cents \div 100) \o << "." >>
        \o << Digits[((cents % 100) \div 10) + 1], Digits[(cents % 10) + 1] >>

\* decimal.Decimal, held by its canonical text str(d)
\* (two decimal places), and its value in hundredths
PyDec(cents) ==
    [t |-> "dec", n |-> cents,
     s |-> IF cents < 0 THEN << "-" >> \o DecText(0 - cents) ELSE DecText(cents),
     c |-> <<>>]

DigitVal(ch) == (CHOOSE i \in 1..10 : Digits[i] = ch) - 1

\* int(text) of a text of digits
RECURSIVE StrToNat(_)
StrToNat(str) ==
    IF str = <<>> THEN 0
    ELSE StrToNat(SubSeq(str, 1, Len(str) - 1)) * 10 + DigitVal(str[Len(str)])

\* Decimal(text) of a text with two decimal places, in hundredths
DecimalOf(str) ==
    LET digits == IF str[1] = "-" THEN Tail(str) ELSE str
        size == StrToNat(SubSeq(digits, 1, Len(digits) - 3)) * 100
                    + StrToNat(SubSeq(digits, Len(digits) - 1, Len(digits)))
    IN  IF str[1] = "-" THEN 0 - size ELSE size

\* A text the program never takes apart is held as one unit.
T(name) == << name >>
PyList(elems) == [t |-> "list", n |-> 0, s |-> <<>>, c |-> elems]
PyItem(k, v) == [t |-> "item", n |-> 0, s |-> k, c |-> << v >>]
\* a dict: its items in insertion order
PyDict(items) == [t |-> "dict", n |-> 0, s |-> <<>>, c |-> items]

\* str(v), as an f-string renders a value
PyFormat(v) ==
    CASE v.t = "none" -> S_None
      [] v.t = "int" -> IntToStr(v.n)
      [] OTHER -> v.s

\* bool(v), as `if v:` tests a value
Truthy(v) ==
    CASE v.t = "none" -> FALSE
      [] v.t = "int" -> v.n # 0
      [] v.t = "bool" -> v.n = 1
      [] v.t = "str" -> v.s # <<>>
      [] v.t = "list" -> v.c # <<>>
      [] v.t = "dict" -> v.c # <<>>
      [] OTHER -> TRUE

\* ------------------------------------------------------------ Key builder

\* A dict is the sequence of its items << key, value >> in insertion order.
\* Variant: the comparison reversed, which sorts descending.
RECURSIVE InsertSorted_descending(_, _)
InsertSorted_descending(item, sorted) ==
    IF sorted = <<>> THEN << item >>
    ELSE IF StrLess(Head(sorted)[1], item[1]) THEN << item >> \o sorted
    ELSE << Head(sorted) >> \o InsertSorted_descending(item, Tail(sorted))

RECURSIVE InsertSorted(_, _)
InsertSorted(item, sorted) ==
    IF sorted = <<>> THEN << item >>
    ELSE IF StrLess(item[1], Head(sorted)[1]) THEN << item >> \o sorted
    ELSE << Head(sorted) >> \o InsertSorted(item, Tail(sorted))

\* sorted(filtered_params.items()): the keys of a dict are distinct, so the
\* tuples are ordered by key alone.
RECURSIVE SortedItems(_)
SortedItems(items) ==
    IF items = <<>> THEN <<>>
    ELSE InsertSorted(Head(items), SortedItems(Tail(items)))

\* "&".join(parts)
RECURSIVE JoinAmp(_)
JoinAmp(parts) ==
    IF parts = <<>> THEN <<>>
    ELSE IF Len(parts) = 1 THEN parts[1]
    ELSE parts[1] \o << "&" >> \o JoinAmp(Tail(parts))

RenderItem(item) == item[1] \o << "=" >> \o PyFormat(item[2])

\* Variant: null entries are kept.
FilteredParams_keep_none(query_params) == query_params

FilteredParams(query_params) ==
    SelectSeq(query_params, LAMBDA item : item[2].t # "none")

\* Variant: the entries are rendered in insertion order.
generate_cache_key_unsorted(base_key, query_params) ==
    IF FilteredParams(query_params) = <<>> THEN base_key \o << ":" >> \o S_all
    ELSE LET filtered_params == FilteredParams(query_params)
         IN  base_key \o << ":" >>
                 \o JoinAmp([i \in 1..Len(filtered_params) |->
                                 RenderItem(filtered_params[i])])

generate_cache_key(base_key, query_params) ==
    IF query_params = <<>> THEN base_key \o << ":" >> \o S_all
    ELSE LET filtered_params == FilteredParams(query_params)
         IN  IF filtered_params = <<>> THEN base_key \o << ":" >> \o S_all
             ELSE LET sorted == SortedItems(filtered_params)
                      param_string ==
                          JoinAmp([i \in 1..Len(sorted) |-> RenderItem(sorted[i])])
                  IN  base_key \o << ":" >> \o param_string

\* ------------------------------------------------- Key builder: the inputs

Namespaces == { S_catalog, S_ns }
KeyFields == { S_game_title, S_limit, S_behavior_name }
KeyValues == { PyNone, PyInt(10000), PyStr(S_Portal), PyStr(S_Portal_amp_limit) }

SeqsUpTo(S, n) == UNION { [1..m -> S] : m \in 0..n }

\* The dicts of at most MaxFields items over KeyFields and KeyValues.
Mappings ==
    { f \in SeqsUpTo(KeyFields \X KeyValues, MaxFields) :
        \A i, j \in 1..Len(f) : i # j => f[i][1] # f[j][1] }

\* The non-null entries of a dict, as a set.
NonNull(f) == { f[i] : i \in { j \in 1..Len(f) : f[j][2].t # "none" } }

\* ------------------------------------------------------------ JSON text

\* A JSON document is held by its parse tree, with the tags "jnull", "jbool",
\* "jnum", "jstr", "jarr", "jobj" and "jitem" (one member of an object).

\* json.dumps(data, default=str): a value json cannot encode natively (a
\* Decimal) is encoded as the JSON string str(value).
DumpTag(t) ==
    CASE t = "none" -> "jnull"
      [] t = "bool" -> "jbool"
      [] t = "int" -> "jnum"
      [] t = "str" -> "jstr"
      [] t = "dec" -> "jstr"
      [] t = "list" -> "jarr"
      [] t = "dict" -> "jobj"
      [] OTHER -> "jitem"

RECURSIVE json_dumps(_)
json_dumps(v) ==
    [t |-> DumpTag(v.t), n |-> IF v.t = "dec" THEN 0 ELSE v.n, s |-> v.s,
     c |-> [i \in 1..Len(v.c) |-> json_dumps(v.c[i])]]

\* json.loads(text)
LoadTag(t) ==
    CASE t = "jnull" -> "none"
      [] t = "jbool" -> "bool"
      [] t = "jnum" -> "int"
      [] t = "jstr" -> "str"
      [] t = "jarr" -> "list"
      [] t = "jobj" -> "dict"
      [] OTHER -> "item"

RECURSIVE json_loads(_)
json_loads(j) ==
    [t |-> LoadTag(j.t), n |-> j.n, s |-> j.s,
     c |-> [i \in 1..Len(j.c) |-> json_loads(j.c[i])]]

\* ------------------------------------------------------------ Redis globs

\* The glob matching of the KEYS command: "*", "?", "[...]" (with "^" and
\* ranges) and "\" as the escape character.

\* The class that opens at p[1] = "[", scanned against the character ch:
\* << whether a member matched, the pattern from the closing "]" on >>.
RECURSIVE ClassScan(_, _, _)
ClassScan(p, ch, hit) ==
    IF p = <<>> THEN << hit, <<>> >>
    ELSE IF Head(p) = "\\" /\ Len(p) >= 2
         THEN ClassScan(SubSeq(p, 3, Len(p)), ch, hit \/ p[2] = ch)
    ELSE IF Head(p) = "]" THEN << hit, p >>
    ELSE IF Len(p) >= 3 /\ p[2] = "-"
         THEN LET lo == IF CharOrd(p[1]) <= CharOrd(p[3]) THEN p[1] ELSE p[3]
                  hi == IF CharOrd(p[1]) <= CharOrd(p[3]) THEN p[3] ELSE p[1]
              IN  ClassScan(SubSeq(p, 4, Len(p)), ch,
                            hit \/ (CharOrd(lo) <= CharOrd(ch)
                                    /\ CharOrd(ch) <= CharOrd(hi)))
    ELSE ClassScan(Tail(p), ch, hit \/ Head(p) = ch)

RECURSIVE GlobMatch(_, _)
GlobMatch(p, str) ==
    IF p = <<>> THEN str = <<>>
    ELSE IF Head(p) = "*"
         THEN \E i \in 0..Len(str) :
                 GlobMatch(Tail(p), SubSeq(str, i + 1, Len(str)))
    ELSE IF str = <<>> THEN FALSE
    ELSE IF Head(p) = "?" THEN GlobMatch(Tail(p), Tail(str))
    ELSE IF Head(p) = "["
         THEN LET neg == Len(p) >= 2 /\ p[2] = "^"
                  body == SubSeq(p, IF neg THEN 3 ELSE 2, Len(p))
                  scan == ClassScan(body, Head(str), FALSE)
              IN  /\ (scan[1] # neg)
                  /\ GlobMatch(IF scan[2] = <<>> THEN <<>> ELSE Tail(scan[2]),
                               Tail(str))
    ELSE IF Head(p) = "\\" /\ Len(p) >= 2
         THEN p[2] = Head(str) /\ GlobMatch(SubSeq(p, 3, Len(p)), Tail(str))
    ELSE Head(p) = Head(str) /\ GlobMatch(Tail(p), Tail(str))

\* ------------------------------------------------------------------ state

VARIABLES
    client,   \* self.client of the process-wide RedisCache: "redis" or "none"
    alive,    \* whether the Redis server answers commands at this moment
    store,    \* the Redis keyspace: key -> [data: the text stored, ttl: seconds]
    db,       \* the rows of table user_behaviors, in id order
    dbUp,     \* whether get_db_connection() obtains a connection
    last      \* the last operation: its name, arguments and result

sysVars == << client, alive, store, db, dbUp, last >>

VARIABLES
    flight,   \* caller -> the adapter call or handler it is in the middle of
    accounts, \* the accounts of the identity provider: email -> account
    users,    \* the rows of table users, in id order
    held,     \* the admin credential the client holds: the last one minted
    now       \* the clock, in minutes

runVars == << flight, accounts, users, held, now >>

\* ------------------------------------------------------------ RedisCache

\* A Redis command succeeds: the adapter connected at construction and the
\* server answers; otherwise the adapter returns early or catches the error.
Reached == client = "redis" /\ alive

\* Texts under a key that are not JSON documents: a non-empty text json.loads
\* rejects with JSONDecodeError, and the empty text.
NotJson == [t |-> "garbage", n |-> 0, s |-> <<>>, c |-> <<>>]

EmptyText == [t |-> "empty", n |-> 0, s |-> <<>>, c |-> <<>>]

EmptyStore == [k \in {} |-> [data |-> json_dumps(PyNone), ttl |-> 0]]

StorePut(st, key, entry) ==
    [k \in DOMAIN st \cup {key} |-> IF k = key THEN entry ELSE st[k]]

StoreDrop(st, keys) == [k \in DOMAIN st \ keys |-> st[k]]

\* The result of an adapter operation: ret, the value returned; store, the
\* keyspace afterwards; exc, whether an exception left the operation.
Returned(value, st) == [ret |-> value, store |-> st, exc |-> FALSE]

Raised(value, st) == [ret |-> value, store |-> st, exc |-> TRUE]

\* Variant: the error of the Redis command is not caught.
cache_delete_uncaught(st, key) ==
    IF client = "none" THEN Returned(FALSE, st)
    ELSE IF ~alive THEN Raised(FALSE, st)
    ELSE Returned(key \in DOMAIN st, StoreDrop(st, {key}))

\* Variant: the result of DEL is compared with >= 0.
cache_delete_any_result(st, key) ==
    IF client = "none" THEN Returned(FALSE, st)
    ELSE IF ~alive THEN Returned(FALSE, st)
    ELSE Returned(TRUE, StoreDrop(st, {key}))

\* RedisCache.delete: result > 0 of DEL key
cache_delete(st, key) ==
    IF client = "none" THEN Returned(FALSE, st)
    ELSE IF ~alive THEN Returned(FALSE, st)
    ELSE Returned(key \in DOMAIN st, StoreDrop(st, {key}))

\* Variant: the stored text is returned without json.loads.
cache_get_raw(st, key) ==
    IF client = "none" THEN Returned(PyNone, st)
    ELSE IF ~alive THEN Returned(PyNone, st)
    ELSE IF key \in DOMAIN st THEN Returned(st[key].data, st)
    ELSE Returned(PyNone, st)

\* Variant: while the server does not answer, the entry is read all the same.
cache_get_through_outage(st, key) ==
    IF key \notin DOMAIN st THEN Returned(PyNone, st)
    ELSE IF st[key].data \in { EmptyText, NotJson } THEN Returned(PyNone, st)
    ELSE Returned(json_loads(st[key].data), st)

\* Variant: a text json.loads rejects is reported absent and left in place.
cache_get_keeps_corrupt(st, key) ==
    IF client = "none" THEN Returned(PyNone, st)
    ELSE IF ~alive THEN Returned(PyNone, st)
    ELSE IF key \notin DOMAIN st THEN Returned(PyNone, st)
    ELSE IF st[key].data \in { EmptyText, NotJson } THEN Returned(PyNone, st)
    ELSE Returned(json_loads(st[key].data), st)

\* RedisCache.get.  `if cached_data:` sends the empty text to the miss
\* branch; json.loads raises JSONDecodeError on a text that is not JSON and
\* the handler of that error calls self.delete(key).
cache_get(st, key) ==
    IF client = "none" THEN Returned(PyNone, st)
    ELSE IF ~alive THEN Returned(PyNone, st)
    ELSE IF key \notin DOMAIN st THEN Returned(PyNone, st)
    ELSE IF st[key].data = EmptyText THEN Returned(PyNone, st)
    ELSE IF st[key].data = NotJson
         THEN Returned(PyNone, cache_delete(st, key).store)
    ELSE Returned(json_loads(st[key].data), st)

\* RedisCache.set; SETEX refuses an expire time that is not positive.
cache_set(st, key, data, ttl) ==
    IF client = "none" THEN Returned(FALSE, st)
    ELSE IF ~alive \/ ttl <= 0 THEN Returned(FALSE, st)
    ELSE Returned(TRUE,
                  StorePut(st, key, [data |-> json_dumps(data), ttl |-> ttl]))

\* self.client.keys(pattern)
redis_keys(st, pattern) == { k \in DOMAIN st : GlobMatch(pattern, k) }

\* Variant: the matching keys are counted and not deleted.
delete_pattern_keeps(st, pattern) ==
    IF client = "none" THEN Returned(0, st)
    ELSE IF ~alive THEN Returned(0, st)
    ELSE Returned(Cardinality(redis_keys(st, pattern)), st)

\* Variant: an adapter that did not connect at construction connects when
\* the server answers.
delete_pattern_reconnects(st, pattern) ==
    IF ~alive THEN Returned(0, st)
    ELSE LET keys == redis_keys(st, pattern)
         IN  IF keys # {}
             THEN Returned(Cardinality(keys), StoreDrop(st, keys))
             ELSE Returned(0, st)

\* RedisCache.delete_pattern
delete_pattern(st, pattern) ==
    IF client = "none" THEN Returned(0, st)
    ELSE IF ~alive THEN Returned(0, st)
    ELSE LET keys == redis_keys(st, pattern)
         IN  IF keys # {}
             THEN Returned(Cardinality(keys), StoreDrop(st, keys))
             ELSE Returned(0, st)

S_catalog_all == S_catalog \o << ":" >> \o S_all

\* f"catalog:*{field}={value}*"
FieldPattern(field, value) ==
    S_catalog \o << ":", "*" >> \o field \o << "=" >> \o PyFormat(value)
        \o << "*" >>

\* patterns_to_delete of RedisCache.invalidate_catalog_cache
patterns_to_delete(game_title, behavior_name, user_id) ==
    (IF Truthy(game_title)
        THEN << FieldPattern(S_game_title, game_title) >> ELSE <<>>)
    \o (IF Truthy(behavior_name)
        THEN << FieldPattern(S_behavior_name, behavior_name) >> ELSE <<>>)
    \o (IF Truthy(user_id)
        THEN << FieldPattern(S_user_id, user_id) >> ELSE <<>>)
    \o << S_catalog_all >>

\* the loop over patterns_to_delete; ret is total_deleted
RECURSIVE DeletePatterns(_, _)
DeletePatterns(st, patterns) ==
    IF patterns = <<>> THEN Returned(0, st)
    ELSE LET one == delete_pattern(st, Head(patterns))
             rest == DeletePatterns(one.store, Tail(patterns))
         IN  [ret |-> one.ret + rest.ret, store |-> rest.store,
              exc |-> one.exc \/ rest.exc]

invalidate_catalog_cache(st, game_title, behavior_name, user_id) ==
    DeletePatterns(st, patterns_to_delete(game_title, behavior_name, user_id))

\* the "config" member of the statistics
StatsConfig ==
    PyItem(T("config"),
           PyDict(<< PyItem(T("host"), PyStr(T("localhost"))),
                     PyItem(T("port"), PyInt(6379)),
                     PyItem(T("db"), PyInt(0)) >>))

\* Variant: the statistics of a server that does not answer are reported as
\* those of a connected, empty one.
get_cache_stats_optimistic(st) ==
    Returned(PyDict(<< PyItem(T("status"), PyStr(T("connected"))),
                       PyItem(T("total_keys"),
                              PyInt(IF Reached THEN Cardinality(DOMAIN st) ELSE 0)),
                       PyItem(T("catalog_keys"),
                              PyInt(IF Reached
                                    THEN Cardinality(redis_keys(st,
                                             S_catalog \o << ":", "*" >>))
                                    ELSE 0)),
                       StatsConfig >>), st)

\* RedisCache.get_cache_stats (the memory, version and client counts of INFO
\* are left out)
get_cache_stats(st) ==
    IF client = "none"
    THEN Returned(PyDict(<< PyItem(T("status"), PyStr(T("disconnected"))),
                            PyItem(T("error"),
                                   PyStr(T("Redis client not initialized"))) >>),
                  st)
    ELSE IF ~alive
    THEN Returned(PyDict(<< PyItem(T("status"), PyStr(T("error"))),
                            PyItem(T("error"), PyStr(T("str(e)"))),
                            StatsConfig >>), st)
    ELSE Returned(PyDict(<< PyItem(T("status"), PyStr(T("connected"))),
                            PyItem(T("total_keys"), PyInt(Cardinality(DOMAIN st))),
                            PyItem(T("catalog_keys"),
                                   PyInt(Cardinality(redis_keys(st,
                                             S_catalog \o << ":", "*" >>)))),
                            StatsConfig >>), st)

\* RedisCache.flush_all: the result of FLUSHDB
flush_all(st) ==
    IF client = "none" THEN Returned(FALSE, st)
    ELSE IF ~alive THEN Returned(FALSE, st)
    ELSE Returned(TRUE, EmptyStore)

\* `cache` is built from class RedisCache before is_connected is defined, and
\* is_connected is defined at module level, not in the class: the instance
\* has no such attribute.
hasattr_cache_is_connected == FALSE

\* is_connected(self): the liveness probe
is_connected == IF client = "none" THEN FALSE ELSE alive

\* ---------------------------------------------------------- authorization

\* The Authorization header of a request, held by what HTTPBearer and
\* jwt.decode find in it: present, whether a bearer token was sent; signed,
\* whether its signature verifies under JWT_SECRET; expired, whether its exp
\* claim is in the past; then its claims.
NoCredentials ==
    [present |-> FALSE, signed |-> FALSE, expired |-> FALSE, iss |-> <<>>,
     is_admin |-> PyNone, user_id |-> PyNone, email |-> PyNone, exp |-> 0]

\* JWT_EXPIRE_MINUTES = int(os.getenv("JWT_EXPIRE_MINUTES", 30)), in an
\* environment that sets it to 2
JWT_EXPIRE_MINUTES == 2

\* payload["iss"] of create_admin_jwt
S_custom_admin_jwt == T("custom-admin-jwt")

\* The token create_admin_jwt mints, within its life time.
AdminToken ==
    [present |-> TRUE, signed |-> TRUE, expired |-> FALSE,
     iss |-> S_custom_admin_jwt, is_admin |-> PyBool(TRUE),
     user_id |-> PyInt(8), email |-> PyStr(T("admin@steamapi.com")),
     exp |-> JWT_EXPIRE_MINUTES]

\* The outcome of a dependency: the status of the HTTPException it raises, or
\* 200 and the payload it returns.
Denied(status) == [status |-> status, payload |-> NoCredentials]

Granted(payload) == [status |-> 200, payload |-> payload]

\* verify_custom_jwt: jwt.decode checks the signature, then exp; the
\* HTTPException raised for a foreign issuer is caught by `except Exception`
\* and raised again with status 401.
verify_custom_jwt(token) ==
    IF ~token.signed THEN Denied(401)
    ELSE IF token.expired THEN Denied(401)
    ELSE IF token.iss # S_custom_admin_jwt THEN Denied(401)
    ELSE Granted(token)

\* Variant: the is_admin claim is not looked at.
verify_custom_admin_token_any_user(credentials) ==
    IF ~credentials.present THEN Denied(401)
    ELSE verify_custom_jwt(credentials)

\* verify_custom_admin_token
verify_custom_admin_token(credentials) ==
    IF ~credentials.present THEN Denied(401)
    ELSE LET token_data == verify_custom_jwt(credentials)
         IN  IF token_data.status # 200 THEN token_data
             ELSE IF ~Truthy(token_data.payload.is_admin) THEN Denied(403)
             ELSE token_data

\* ------------------------------------------------------- catalog handlers

\* limit: int = Query(10000, le=10000)
DefaultLimit == 10000

\* cache.set(cache_key, response_data, ttl=3600)
CacheTtl == 3600

LowerChar(ch) ==
    CASE ch = "A" -> "a" [] ch = "N" -> "n" [] ch = "P" -> "p" [] OTHER -> ch

Lower(str) == [i \in 1..Len(str) |-> LowerChar(str[i])]

Contains(str, sub) ==
    \E i \in 0..(Len(str) - Len(sub)) : SubSeq(str, i + 1, i + Len(sub)) = sub

\* game_title ILIKE %needle% (the texts of the model hold no "%" and no "_")
ILike(title, needle) == Contains(Lower(title), Lower(needle))

\* The WHERE clause get_catalog builds: a filter is added when the parameter
\* is truthy.
RowMatches(row, game_title, behavior_name, user_id) ==
    /\ Truthy(game_title) => ILike(row.game_title, game_title.s)
    /\ Truthy(behavior_name) => row.behavior_name = behavior_name.s
    /\ Truthy(user_id) => row.user_id = user_id.n

\* SELECT * FROM user_behaviors WHERE ... ORDER BY id LIMIT limit
RunQuery(rows, game_title, behavior_name, user_id, limit) ==
    LET hits == SelectSeq(rows,
                    LAMBDA row : RowMatches(row, game_title, behavior_name, user_id))
    IN  SubSeq(hits, 1, IF Len(hits) < limit THEN Len(hits) ELSE limit)

\* dict(row)
RowDict(row) ==
    PyDict(<< PyItem(T("id"), PyInt(row.id)),
              PyItem(T("user_id"), PyInt(row.user_id)),
              PyItem(T("game_title"), PyStr(row.game_title)),
              PyItem(T("behavior_name"), PyStr(row.behavior_name)),
              PyItem(T("value"), PyDec(row.value)) >>)

QueryParams(game_title, behavior_name, user_id, limit) ==
    << << S_game_title, game_title >>, << S_behavior_name, behavior_name >>,
       << S_user_id, user_id >>, << S_limit, PyInt(limit) >> >>

\* cache_key of get_catalog
CatalogKey(game_title, behavior_name, user_id, limit) ==
    generate_cache_key(S_catalog,
                       QueryParams(game_title, behavior_name, user_id, limit))

\* response_data of get_catalog, as it is handed to cache.set
ResponseData(results, game_title, behavior_name, user_id, limit) ==
    PyDict(<< PyItem(T("total"), PyInt(Len(results))),
              PyItem(T("message"),
                     PyStr(T("Datos del catalogo obtenidos exitosamente"))),
              PyItem(T("filters_applied"),
                     PyDict(<< PyItem(T("game_title"), game_title),
                               PyItem(T("behavior_name"), behavior_name),
                               PyItem(T("user_id"), user_id),
                               PyItem(T("limit"), PyInt(limit)) >>)),
              PyItem(T("data"),
                     PyList([i \in 1..Len(results) |-> RowDict(results[i])])) >>)

\* d[name] = value on a dict that has no such key yet
WithItem(d, name, value) == PyDict(Append(d.c, PyItem(name, value)))

\* The record of the last operation.
\*   op: its name; key: the cache key or pattern it used; req: its arguments;
\*   arg: the payload of a set; ret: the value returned; pats: the patterns
\*   purged; removed: the keys it deleted; io: whether Redis was reached;
\*   chain: whether the operation before it was the one this one follows up;
\*   status: the HTTP status of a handler; hit: whether a read was served from
\*   the cache; dbup: whether the database accepted connections; dbq: whether
\*   a statement was run on the database; body: the HTTP response body;
\*   exc: whether an adapter operation let an exception out; cred: the
\*   credential of a write, or the one a login minted; err: the text of the
\*   exception a handler caught that it did not raise itself.
Op(op, key, req, arg, ret, pats, removed, chain) ==
    [op |-> op, key |-> key, req |-> req, arg |-> arg, ret |-> ret,
     pats |-> pats, removed |-> removed, io |-> Reached, chain |-> chain,
     status |-> 0, hit |-> FALSE, dbup |-> dbUp, dbq |-> FALSE,
     body |-> PyNone, exc |-> FALSE, cred |-> NoCredentials, err |-> <<>>]

NoOp(op) == [Op(op, <<>>, <<>>, PyNone, PyNone, <<>>, {}, FALSE) EXCEPT !.io = FALSE]

\* d.get(name)
Lookup(d, name) ==
    IF \E i \in 1..Len(d.c) : d.c[i].s = name
    THEN d.c[CHOOSE i \in 1..Len(d.c) : d.c[i].s = name].c[1]
    ELSE PyNone

\* A row as model CatalogItem holds it: value is a Decimal, parsed from its
\* text when the row comes from the cache.
CatalogItemOf(row) ==
    PyDict(<< PyItem(T("id"), Lookup(row, T("id"))),
              PyItem(T("user_id"), Lookup(row, T("user_id"))),
              PyItem(T("game_title"), Lookup(row, T("game_title"))),
              PyItem(T("behavior_name"), Lookup(row, T("behavior_name"))),
              PyItem(T("value"),
                     IF Lookup(row, T("value")).t = "str"
                     THEN PyDec(DecimalOf(Lookup(row, T("value")).s))
                     ELSE Lookup(row, T("value"))) >>)

\* response_model=CatalogResponse: the body sent for the dict the handler
\* returns
CatalogResponse(d) ==
    PyDict(<< PyItem(T("total"), Lookup(d, T("total"))),
              PyItem(T("message"), Lookup(d, T("message"))),
              PyItem(T("data"),
                     PyList([i \in 1..Len(Lookup(d, T("data")).c) |->
                                CatalogItemOf(Lookup(d, T("data")).c[i])])),
              PyItem(T("cache_info"), Lookup(d, T("cache_info"))),
              PyItem(T("telemetry_info"), Lookup(d, T("telemetry_info"))) >>)

\* The body of HTTPException(status_code, detail)
ErrorBody(detail) == PyDict(<< PyItem(T("detail"), PyStr(T(detail))) >>)

\* A request answered with an error: nothing is written.
Rejected(began, status, detail) ==
    /\ last' = [began EXCEPT !.ret = PyInt(status), !.status = status,
                    !.body = ErrorBody(detail)]
    /\ UNCHANGED << client, alive, store, db, dbUp >>

\* str(e) of the AttributeError conn.cursor() raises when
\* get_db_connection() has returned None
E_NoCursor == "'NoneType' object has no attribute 'cursor'"

\* str(e) of the error PostgreSQL raises for LIMIT with a negative number
E_NegativeLimit == "LIMIT must not be negative"

\* str(e) of the TypeError an item assignment on a list raises
E_NoItemAssignment == "list indices must be integers or slices, not str"

\* cached_result["cache_info"] = {"hit": True, "key": cache_key, ...}
HitAnnotated(cached_result, cache_key) ==
    WithItem(cached_result, T("cache_info"),
        PyDict(<< PyItem(T("hit"), PyBool(TRUE)),
                  PyItem(T("key"), PyStr(cache_key)) >>))

\* response_data once telemetry_info and cache_info are added to it
MissAnnotated(response_data, cache_key, cache_saved) ==
    WithItem(
        WithItem(response_data, T("telemetry_info"),
            PyDict(<< PyItem(T("traced"), PyBool(TRUE)) >>)),
        T("cache_info"),
        PyDict(<< PyItem(T("hit"), PyBool(FALSE)),
                  PyItem(T("key"), PyStr(cache_key)),
                  PyItem(T("stored"), PyBool(cache_saved)) >>))

\* Variant: the annotated payload of a hit is written back under its key.
get_catalog_hit_writes_back(began, got) ==
    /\ store' = cache_set(got.store, began.key,
                          HitAnnotated(got.ret, began.key), CacheTtl).store
    /\ last' = [began EXCEPT !.ret = HitAnnotated(got.ret, began.key),
                    !.status = 200, !.hit = TRUE,
                    !.body = CatalogResponse(HitAnnotated(got.ret, began.key))]
    /\ UNCHANGED << client, alive, db, dbUp >>

\* get_catalog, the branch `if cached_result:`; got is the result of
\* cache.get, began the record of the request
get_catalog_hit(began, got) ==
    IF got.ret.t = "dict"
    THEN /\ store' = got.store
         /\ last' = [began EXCEPT !.ret = HitAnnotated(got.ret, began.key),
                         !.status = 200, !.hit = TRUE,
                         !.body = CatalogResponse(HitAnnotated(got.ret, began.key))]
         /\ UNCHANGED << client, alive, db, dbUp >>
    ELSE \* item assignment on a value that is not a dict raises TypeError
         /\ store' = got.store
         /\ last' = [began EXCEPT !.status = 500, !.hit = TRUE,
                         !.err = T(E_NoItemAssignment),
                         !.body = ErrorBody(E_NoItemAssignment)]
         /\ UNCHANGED << client, alive, db, dbUp >>

\* Variant: the response of a miss is returned and not stored.
get_catalog_miss_never_stores(began, got) ==
    IF ~dbUp
    THEN /\ store' = got.store
         /\ last' = [began EXCEPT !.status = 500, !.err = T(E_NoCursor),
                         !.body = ErrorBody(E_NoCursor)]
         /\ UNCHANGED << client, alive, db, dbUp >>
    ELSE LET results == RunQuery(db, began.req[1], began.req[2], began.req[3],
                                 began.req[4].n)
             response ==
                 MissAnnotated(ResponseData(results, began.req[1], began.req[2],
                                            began.req[3], began.req[4].n),
                               began.key, Reached)
         IN  /\ store' = got.store
             /\ last' = [began EXCEPT !.ret = response, !.status = 200,
                             !.dbq = TRUE, !.body = CatalogResponse(response)]
             /\ UNCHANGED << client, alive, db, dbUp >>

\* Variant: the response of a miss is stored while the database is out of
\* reach too, as an empty result.
get_catalog_miss_stores_on_error(began, got) ==
    LET results == IF dbUp
                   THEN RunQuery(db, began.req[1], began.req[2], began.req[3],
                                 began.req[4].n)
                   ELSE <<>>
        response_data == ResponseData(results, began.req[1], began.req[2],
                                      began.req[3], began.req[4].n)
        saved == cache_set(got.store, began.key, response_data, CacheTtl)
    IN  /\ store' = saved.store
        /\ last' = IF dbUp
                   THEN [began EXCEPT
                            !.ret = MissAnnotated(response_data, began.key, saved.ret),
                            !.status = 200, !.dbq = TRUE,
                            !.body = CatalogResponse(
                                MissAnnotated(response_data, began.key, saved.ret))]
                   ELSE [began EXCEPT !.status = 500, !.err = T(E_NoCursor),
                                      !.body = ErrorBody(E_NoCursor)]
        /\ UNCHANGED << client, alive, db, dbUp >>

\* Variant: the response is stored after the annotations are added to it.
get_catalog_miss_stores_annotated(began, got) ==
    IF ~dbUp
    THEN /\ store' = got.store
         /\ last' = [began EXCEPT !.status = 500, !.err = T(E_NoCursor),
                         !.body = ErrorBody(E_NoCursor)]
         /\ UNCHANGED << client, alive, db, dbUp >>
    ELSE LET results == RunQuery(db, began.req[1], began.req[2], began.req[3],
                                 began.req[4].n)
             response == MissAnnotated(
                             ResponseData(results, began.req[1], began.req[2],
                                          began.req[3], began.req[4].n),
                             began.key, Reached)
             saved == cache_set(got.store, began.key, response, CacheTtl)
         IN  /\ store' = saved.store
             /\ last' = [began EXCEPT !.ret = response, !.status = 200,
                             !.dbq = TRUE, !.body = CatalogResponse(response)]
             /\ UNCHANGED << client, alive, db, dbUp >>

\* get_catalog after a miss: the query, cache.set and the annotations.  When
\* get_db_connection() returns None, conn.cursor() raises and the handler
\* answers 500 with detail str(e); so it does when the database refuses the
\* statement, which ends in f" ORDER BY id LIMIT {limit}".
get_catalog_miss(began, got) ==
    IF ~dbUp
    THEN /\ store' = got.store
         /\ last' = [began EXCEPT !.status = 500, !.err = T(E_NoCursor),
                         !.body = ErrorBody(E_NoCursor)]
         /\ UNCHANGED << client, alive, db, dbUp >>
    ELSE IF began.req[4].n < 0
    THEN /\ store' = got.store
         /\ last' = [began EXCEPT !.status = 500, !.dbq = TRUE,
                         !.err = T(E_NegativeLimit),
                         !.body = ErrorBody(E_NegativeLimit)]
         /\ UNCHANGED << client, alive, db, dbUp >>
    ELSE LET results == RunQuery(db, began.req[1], began.req[2], began.req[3],
                                 began.req[4].n)
             response_data == ResponseData(results, began.req[1], began.req[2],
                                           began.req[3], began.req[4].n)
             saved == cache_set(got.store, began.key, response_data, CacheTtl)
             response == MissAnnotated(response_data, began.key, saved.ret)
         IN  /\ store' = saved.store
             /\ last' = [began EXCEPT !.ret = response, !.status = 200,
                             !.dbq = TRUE, !.body = CatalogResponse(response)]
             /\ UNCHANGED << client, alive, db, dbUp >>

\* GET /catalog (wall-clock durations are left out of the annotations).
\* Query(10000, le=10000) refuses a limit above 10000 with 422 before the
\* handler runs.
\* chain: the operation before was the same read, answered from the database
\* and stored; arg then holds the body of that answer.
get_catalog(game_title, behavior_name, user_id, limit) ==
    LET cache_key == CatalogKey(game_title, behavior_name, user_id, limit)
        got == cache_get(store, cache_key)
        req == << game_title, behavior_name, user_id, PyInt(limit) >>
        chain == /\ last.op = "get_catalog"
                 /\ last.req = req
                 /\ last.status = 200
                 /\ ~last.hit
                 /\ Truthy(Lookup(Lookup(last.ret, T("cache_info")), T("stored")))
        began == Op("get_catalog", cache_key, req,
                    IF chain THEN last.body ELSE PyNone, PyNone, <<>>,
                    DOMAIN store \ DOMAIN got.store, chain)
    IN  IF limit > DefaultLimit
        THEN Rejected([began EXCEPT !.removed = {}], 422, "less_than_equal")
        ELSE IF Truthy(got.ret)
        THEN get_catalog_hit(began, got)
        ELSE get_catalog_miss(began, got)

\* Variant: the constraint gt=0 on value is dropped.
CatalogItemValid_any_value(item) ==
    /\ item[1].t = "int"
    /\ item[2].t = "str" /\ Len(item[2].s) <= 100
    /\ item[3].t = "str" /\ Len(item[3].s) <= 50
    /\ item[4].t = "dec"

\* Model CatalogItem applied to the body << user_id, game_title,
\* behavior_name, value >>; a member the body lacks is None.
CatalogItemValid(item) ==
    /\ item[1].t = "int"
    /\ item[2].t = "str" /\ Len(item[2].s) <= 100
    /\ item[3].t = "str" /\ Len(item[3].s) <= 50
    /\ item[4].t = "dec" /\ item[4].n > 0

\* The body of the answer to a write that was committed.
CreationResponse(new_item, admin_data, deleted_keys) ==
    PyDict(<< PyItem(T("success"), PyBool(TRUE)),
              PyItem(T("message"), PyStr(T("Item creado exitosamente"))),
              PyItem(T("item"), RowDict(new_item)),
              PyItem(T("admin_info"),
                     PyDict(<< PyItem(T("admin_id"), admin_data.user_id),
                               PyItem(T("admin_email"), admin_data.email) >>)),
              PyItem(T("cache_invalidation"),
                     PyDict(<< PyItem(T("keys_deleted"), PyInt(deleted_keys)) >>)) >>)

\* The row INSERT ... RETURNING gives back
NewItem(req) ==
    [id |-> Len(db) + 1, user_id |-> req[1].n, game_title |-> req[2].s,
     behavior_name |-> req[3].s, value |-> req[4].n]

\* The guarded call of invalidate_catalog_cache after the commit
InvalidateAfterCommit(req) ==
    IF hasattr_cache_is_connected /\ is_connected
    THEN invalidate_catalog_cache(store, req[2], req[3], req[1])
    ELSE Returned(0, store)

\* Variant: a store that cannot be reached fails the request after the
\* commit.
create_catalog_item_insert_strict(began, admin_data) ==
    IF ~dbUp
    THEN Rejected([began EXCEPT !.err = T(E_NoCursor)], 500,
                  "Error interno al crear item")
    ELSE /\ db' = Append(db, NewItem(began.req))
         /\ store' = InvalidateAfterCommit(began.req).store
         /\ last' = IF Reached
                    THEN [began EXCEPT
                             !.arg = PyInt(InvalidateAfterCommit(began.req).ret),
                             !.ret = PyInt(200), !.status = 200, !.dbq = TRUE,
                             !.body = CreationResponse(NewItem(began.req), admin_data,
                                          InvalidateAfterCommit(began.req).ret)]
                    ELSE [began EXCEPT !.ret = PyInt(500), !.status = 500,
                             !.dbq = TRUE,
                             !.body = ErrorBody("Error interno al crear item")]
         /\ UNCHANGED << client, alive, dbUp >>

\* Variant: a write the database did not take is answered as created.
create_catalog_item_insert_blind(began, admin_data) ==
    /\ db' = IF dbUp THEN Append(db, NewItem(began.req)) ELSE db
    /\ store' = InvalidateAfterCommit(began.req).store
    /\ last' = [began EXCEPT
                   !.arg = PyInt(InvalidateAfterCommit(began.req).ret),
                   !.ret = PyInt(200), !.status = 200, !.dbq = dbUp,
                   !.body = CreationResponse(NewItem(began.req), admin_data,
                                InvalidateAfterCommit(began.req).ret)]
    /\ UNCHANGED << client, alive, dbUp >>

\* create_catalog_item from get_db_connection() on: INSERT, commit, the
\* invalidation in its own try / except, the response.  When
\* get_db_connection() returns None, conn.cursor() raises and the handler
\* answers 500.
create_catalog_item_insert(began, admin_data) ==
    IF ~dbUp
    THEN Rejected([began EXCEPT !.err = T(E_NoCursor)], 500,
                  "Error interno al crear item")
    ELSE /\ db' = Append(db, NewItem(began.req))
         /\ store' = InvalidateAfterCommit(began.req).store
         /\ last' = [began EXCEPT
                        !.arg = PyInt(InvalidateAfterCommit(began.req).ret),
                        !.ret = PyInt(200), !.status = 200, !.dbq = TRUE,
                        !.removed = DOMAIN store
                                      \ DOMAIN InvalidateAfterCommit(began.req).store,
                        !.body = CreationResponse(NewItem(began.req), admin_data,
                                     InvalidateAfterCommit(began.req).ret)]
         /\ UNCHANGED << client, alive, dbUp >>

\* What the database does with the statement of a write: it takes it, or
\* cur.execute raises, or conn.commit raises.
NoFault == "none"

InsertFaults == { "execute", "commit" }

E_Execute == "psycopg2.Error: INSERT"

E_Commit == "psycopg2.Error: COMMIT"

\* Variant: the patterns are purged before the statement is sent.
create_catalog_item_raises_after_purge(began, fault) ==
    /\ store' = invalidate_catalog_cache(store, began.req[2], began.req[3],
                                         began.req[1]).store
    /\ last' = [began EXCEPT
                   !.err = T(IF fault = "execute" THEN E_Execute ELSE E_Commit),
                   !.dbq = TRUE, !.ret = PyInt(500), !.status = 500,
                   !.removed = DOMAIN store
                                 \ DOMAIN invalidate_catalog_cache(store,
                                       began.req[2], began.req[3],
                                       began.req[1]).store,
                   !.body = ErrorBody("Error interno al crear item")]
    /\ UNCHANGED << client, alive, db, dbUp >>

\* create_catalog_item from get_db_connection() on, when cur.execute or
\* conn.commit raises: the statements after it do not run, the handler
\* answers 500 and finally closes the connection, which drops the
\* transaction.
create_catalog_item_raises(began, fault) ==
    Rejected([began EXCEPT
                 !.err = T(IF fault = "execute" THEN E_Execute ELSE E_Commit),
                 !.dbq = TRUE],
             500, "Error interno al crear item")

\* POST /catalog under a fault of the database.  The dependency
\* verify_custom_admin_token runs first, then the body is validated against
\* CatalogItem (422), then the handler.
create_catalog_item_with(credentials, user_id, game_title, behavior_name, value, fault) ==
    LET req == << user_id, game_title, behavior_name, value >>
        began == [Op("create", <<>>, req, PyNone, PyNone, <<>>, {}, FALSE)
                  EXCEPT !.cred = credentials]
        admin == verify_custom_admin_token(credentials)
    IN  IF admin.status # 200
        THEN Rejected(began, admin.status, "Token admin invalido")
        ELSE IF ~CatalogItemValid(req)
        THEN Rejected(began, 422, "value_error")
        ELSE IF ~Truthy(game_title) \/ ~Truthy(behavior_name)
        THEN Rejected(began, 400, "game_title y behavior_name son requeridos")
        ELSE IF fault = NoFault \/ ~dbUp
        THEN create_catalog_item_insert(began, admin.payload)
        ELSE create_catalog_item_raises(began, fault)

\* POST /catalog
create_catalog_item(credentials, user_id, game_title, behavior_name, value) ==
    create_catalog_item_with(credentials, user_id, game_title, behavior_name,
                             value, NoFault)

\* ---------------------------------------------------------- auth handlers

\* firebase_login and auth.verify_id_token: the uid of the account that has
\* this email and this password, the empty text when the provider rejects
\* them.
ProviderUid(email, password) ==
    IF \E a \in accounts : a.email = email /\ a.password = password
    THEN (CHOOSE a \in accounts : a.email = email /\ a.password = password).uid
    ELSE <<>>

\* SELECT id, email, is_admin FROM users WHERE firebase_uid = %s AND
\* is_active = true; cur.fetchone()
ActiveUsers(firebase_uid) ==
    SelectSeq(users, LAMBDA row : row.firebase_uid = firebase_uid /\ row.is_active)

\* create_admin_jwt: the token, with exp = utcnow() + JWT_EXPIRE_MINUTES
create_admin_jwt(firebase_uid, email, user_id) ==
    [present |-> TRUE, signed |-> TRUE, expired |-> FALSE,
     iss |-> S_custom_admin_jwt, is_admin |-> PyBool(TRUE),
     user_id |-> PyInt(user_id), email |-> PyStr(email),
     exp |-> now + JWT_EXPIRE_MINUTES]

\* Variant: jwt.decode does not look at exp.
Presented_ignoring_exp(token) == token

\* A token as jwt.decode finds it when it is presented: expired once the
\* clock has reached exp.
Presented(token) == [token EXCEPT !.expired = (token.exp <= now)]

\* A login that ends in `except Exception as e: raise HTTPException(401,
\* detail=str(e))`
LoginFailed(began, detail, err) ==
    /\ last' = [began EXCEPT !.ret = PyInt(401), !.status = 401, !.err = err,
                    !.body = ErrorBody(detail)]
    /\ UNCHANGED << client, alive, store, db, dbUp, accounts, users, held >>

\* What login returns
LoginResponse(firebase_uid, custom_jwt, is_admin) ==
    PyDict(<< PyItem(T("message"), PyStr(T("Login exitoso"))),
              PyItem(T("id_token"), PyStr(T("id_token"))),
              PyItem(T("firebase_uid"), PyStr(firebase_uid)),
              PyItem(T("custom_jwt"), custom_jwt),
              PyItem(T("is_admin"), PyBool(is_admin)) >>)

\* POST /auth/login.  Model UserLogin refuses a password of less than 6
\* characters (422).  Everything raised inside the try, the HTTPException
\* of firebase_login and the HTTPException(404) of the handler included, is
\* caught by `except Exception` and raised again with status 401; str() of
\* an HTTPException is its status and its detail.
login(email, password) ==
    LET began == Op("login", <<>>, << email, password >>, PyNone, PyNone, <<>>,
                    {}, FALSE)
        firebase_uid == ProviderUid(email, password)
        found == ActiveUsers(firebase_uid)
    IN  IF Len(password) < 6
        THEN /\ last' = [began EXCEPT !.ret = PyInt(422), !.status = 422,
                             !.body = ErrorBody("value_error")]
             /\ UNCHANGED << client, alive, store, db, dbUp, accounts, users, held >>
        ELSE IF firebase_uid = <<>>
        THEN LoginFailed(began, "401: INVALID_LOGIN_CREDENTIALS", <<>>)
        ELSE IF ~dbUp
        THEN LoginFailed(began, E_NoCursor, T(E_NoCursor))
        ELSE IF found = <<>>
        THEN LoginFailed(began, "404: Usuario no encontrado", <<>>)
        ELSE LET user_data == found[1]
                 custom_jwt == create_admin_jwt(firebase_uid, user_data.email,
                                                user_data.id)
             IN  /\ last' = [began EXCEPT
                                !.ret = PyInt(200), !.status = 200, !.dbq = TRUE,
                                !.cred = IF user_data.is_admin THEN custom_jwt
                                         ELSE NoCredentials,
                                !.body = LoginResponse(firebase_uid,
                                             IF user_data.is_admin
                                             THEN PyStr(T("custom_jwt"))
                                             ELSE PyNone,
                                             user_data.is_admin)]
                 /\ held' = IF user_data.is_admin THEN custom_jwt ELSE held
                 /\ UNCHANGED << client, alive, store, db, dbUp, accounts, users >>

\* The uid the identity provider gives a new account.
NewUid(email) == << "uid:" >> \o email

\* POST /auth/signup.  Model UserSignup refuses a password of less than 6
\* characters (422).  create_firebase_user raises HTTPException(400) for an
\* email that has an account; that exception and every other one is caught
\* by `except Exception` and raised again with status 400 and detail str(e).
\* The account exists from create_firebase_user on, whatever follows.
signup(email, password) ==
    LET began == Op("signup", <<>>, << email, password >>, PyNone, PyNone, <<>>,
                    {}, FALSE)
        new_user == [id |-> Len(users) + 1, firebase_uid |-> NewUid(email),
                     email |-> email, is_active |-> TRUE, is_admin |-> FALSE]
    IN  IF Len(password) < 6
        THEN /\ last' = [began EXCEPT !.ret = PyInt(422), !.status = 422,
                             !.body = ErrorBody("value_error")]
             /\ UNCHANGED << client, alive, store, db, dbUp, accounts, users, held >>
        ELSE IF \E a \in accounts : a.email = email
        THEN /\ last' = [began EXCEPT !.ret = PyInt(400), !.status = 400,
                             !.body = ErrorBody("400: El email ya esta registrado")]
             /\ UNCHANGED << client, alive, store, db, dbUp, accounts, users, held >>
        ELSE /\ accounts' = accounts \cup { [email |-> email, password |-> password,
                                             uid |-> NewUid(email)] }
             /\ IF ~dbUp
                THEN /\ last' = [began EXCEPT !.ret = PyInt(400), !.status = 400,
                                     !.err = T(E_NoCursor),
                                     !.body = ErrorBody(E_NoCursor)]
                     /\ UNCHANGED users
                ELSE /\ users' = Append(users, new_user)
                     /\ last' = [began EXCEPT
                                    !.ret = PyInt(200), !.status = 200, !.dbq = TRUE,
                                    !.body = PyDict(<<
                                        PyItem(T("message"),
                                               PyStr(T("Usuario creado exitosamente"))),
                                        PyItem(T("user"),
                                               PyDict(<<
                                                   PyItem(T("id"), PyInt(new_user.id)),
                                                   PyItem(T("email"), PyStr(email)),
                                                   PyItem(T("is_active"), PyBool(TRUE)),
                                                   PyItem(T("is_admin"), PyBool(FALSE))
                                               >>)) >>)]
             /\ UNCHANGED << client, alive, store, db, dbUp, held >>

\* GET /health: get_db_connection() returns None when it cannot connect and
\* get_cache_stats catches its errors, so the `except` of the handler (500,
\* "Health check failed") is not entered.
health_check ==
    LET began == Op("health", <<>>, <<>>, PyNone, PyNone, <<>>, {}, FALSE)
        cache_stats == get_cache_stats(store)
    IN  /\ last' = IF dbUp
                   THEN [began EXCEPT
                            !.ret = cache_stats.ret, !.status = 200,
                            !.body = PyDict(<<
                                PyItem(T("status"), PyStr(T("healthy"))),
                                PyItem(T("database"), PyStr(T("connected"))),
                                PyItem(T("telemetry"), PyStr(T("active"))),
                                PyItem(T("cache"), cache_stats.ret) >>)]
                   ELSE [began EXCEPT
                            !.status = 200,
                            !.body = PyDict(<<
                                PyItem(T("status"), PyStr(T("unhealthy"))),
                                PyItem(T("database"), PyStr(T("disconnected"))) >>)]
        /\ UNCHANGED << client, alive, store, db, dbUp >>

\* ------------------------------------------------------------- the routes

\* The prefixes of the routers main.py hands to app.include_router
IncludedRouters == { T("/auth"), T("/catalog") }

\* A request for a path under prefix finds a route.
Routed(prefix) == prefix \in IncludedRouters

\* The answer of the application to a path that has no route.
NotFound(began) ==
    /\ last' = [began EXCEPT !.ret = PyInt(404), !.status = 404,
                    !.body = ErrorBody("Not Found")]
    /\ UNCHANGED << client, alive, store, db, dbUp >>

\* cache_controller.get_cache_stats
cache_stats_handler(began) ==
    LET stats == get_cache_stats(store)
    IN  /\ store' = stats.store
        /\ last' = [began EXCEPT
                       !.ret = stats.ret, !.status = 200,
                       !.body = PyDict(<<
                           PyItem(T("message"),
                                  PyStr(T("Estadisticas del cache obtenidas"))),
                           PyItem(T("stats"), stats.ret),
                           PyItem(T("endpoints"),
                                  PyDict(<< PyItem(T("clear_cache"),
                                                   PyStr(T("/cache/clear"))),
                                            PyItem(T("health"),
                                                   PyStr(T("/health"))) >>)) >>)]
        /\ UNCHANGED << client, alive, db, dbUp >>

\* pattern: Optional[str] = Query("catalog:*")
DefaultPattern == S_catalog \o << ":", "*" >>

\* cache_controller.clear_cache
clear_cache_handler(began, pattern) ==
    LET deleted_keys == delete_pattern(store, pattern)
    IN  /\ store' = deleted_keys.store
        /\ last' = [began EXCEPT
                       !.key = pattern, !.pats = << pattern >>,
                       !.removed = DOMAIN store \ DOMAIN deleted_keys.store,
                       !.ret = PyInt(deleted_keys.ret), !.status = 200,
                       !.body = PyDict(<<
                           PyItem(T("message"),
                                  PyStr(T("Cache limpiado exitosamente"))),
                           PyItem(T("pattern"), PyStr(pattern)),
                           PyItem(T("keys_deleted"), PyInt(deleted_keys.ret)) >>)]
        /\ UNCHANGED << client, alive, db, dbUp >>

\* GET /cache/stats as the application answers it
get_cache_stats_route ==
    LET began == Op("cache_stats", <<>>, <<>>, PyNone, PyNone, <<>>, {}, FALSE)
    IN  IF Routed(T("/cache")) THEN cache_stats_handler(began) ELSE NotFound(began)

\* DELETE /cache/clear as the application answers it; pattern is None when
\* the query string has none
clear_cache_route(pattern) ==
    LET began == Op("clear_cache", <<>>, << pattern >>, PyNone, PyNone, <<>>, {},
                    FALSE)
    IN  IF Routed(T("/cache"))
        THEN clear_cache_handler(began,
                 IF pattern = PyNone THEN DefaultPattern ELSE pattern.s)
        ELSE NotFound(began)

VARIABLES kbNs, kbF1, kbF2, kbKey1, kbKey2, kbDone

kbVars == << kbNs, kbF1, kbF2, kbKey1, kbKey2, kbDone >>

KeyInit ==
    /\ kbNs \in Namespaces
    /\ kbF1 \in Mappings
    /\ kbF2 = <<>>
    /\ kbKey1 = <<>>
    /\ kbKey2 = <<>>
    /\ kbDone = FALSE

\* Two calls of the key builder under one namespace.
BuildKeys(f2) ==
    /\ ~kbDone
    /\ kbF2' = f2
    /\ kbKey1' = generate_cache_key(kbNs, kbF1)
    /\ kbKey2' = generate_cache_key(kbNs, f2)
    /\ kbDone' = TRUE
    /\ UNCHANGED << kbNs, kbF1 >>
    /\ UNCHANGED << sysVars, runVars >>

\* ------------------------------------------------------ calls in progress

\* The handlers of the service run on the threads of a pool: two callers.
Callers == { 1, 2 }

\* A caller that is in no call.
\*   pc: its position: "idle"; "keys", before self.client.keys(pattern);
\*   "del", before self.client.delete(*keys); "query", before the SELECT of a
\*   read; "set", before cache.set of a read; "done", before the return;
\*   op: the call; req: its arguments; pats: the patterns still to purge;
\*   keys: the keys self.client.keys returned; total: the count so far;
\*   gone: the keys the call removed; snap: the keyspace when the call began;
\*   log: what other callers did to the keyspace since the call began, in
\*   order: the key of a SET or the keys of a DEL; rows: the rows the SELECT
\*   of a read returned; key: the cache key of a read.
Idle ==
    [pc |-> "idle", op |-> "none", req |-> <<>>, pats |-> <<>>, keys |-> {},
     total |-> 0, gone |-> {}, snap |-> EmptyStore, log |-> <<>>,
     rows |-> <<>>, key |-> <<>>]

AllIdle == \A c \in Callers : flight[c].pc = "idle"

\* Variant: DEL removes nothing when one of the keys is gone already.
redis_delete_all_or_nothing(st, keys) ==
    IF keys \subseteq DOMAIN st
    THEN Returned(Cardinality(keys), StoreDrop(st, keys))
    ELSE Returned(0, st)

\* self.client.delete(*keys): the keys that exist are removed and counted
redis_delete(st, keys) ==
    Returned(Cardinality(keys \cap DOMAIN st), StoreDrop(st, keys))

\* The calls in progress of the callers other than c note what c did to the
\* keyspace.
Noted(fl, c, set, keys) ==
    [d \in Callers |->
        IF d # c /\ fl[d].pc # "idle"
        THEN [fl[d] EXCEPT !.log = Append(fl[d].log, [set |-> set, keys |-> keys])]
        ELSE fl[d]]

\* delete_pattern has returned: the loop goes to the next pattern.
NextPattern(f) ==
    [f EXCEPT !.pats = Tail(f.pats), !.keys = {},
              !.pc = IF Len(f.pats) = 1 THEN "done" ELSE "keys"]

\* A caller enters the loop of invalidate_catalog_cache, or delete_pattern
\* with the one pattern; without a client every delete_pattern returns 0.
PurgeBegin(c, op, req, patterns) ==
    /\ flight[c].pc = "idle"
    /\ flight' = [flight EXCEPT ![c] =
                     [Idle EXCEPT !.pc = IF client = "none" THEN "done" ELSE "keys",
                                  !.op = op, !.req = req, !.pats = patterns,
                                  !.snap = store]]
    /\ UNCHANGED << sysVars, kbVars, accounts, users, held, now >>

\* keys = self.client.keys(pattern); a command the server does not answer
\* raises, and delete_pattern returns 0
PurgeKeys(c) ==
    /\ flight[c].pc = "keys"
    /\ LET keys == redis_keys(store, Head(flight[c].pats))
       IN  flight' = [flight EXCEPT ![c] =
                         IF ~alive \/ keys = {}
                         THEN NextPattern(flight[c])
                         ELSE [flight[c] EXCEPT !.pc = "del", !.keys = keys]]
    /\ UNCHANGED << sysVars, kbVars, accounts, users, held, now >>

\* deleted = self.client.delete(*keys); total_deleted += deleted
PurgeDel(c) ==
    /\ flight[c].pc = "del"
    /\ LET done == redis_delete(store, flight[c].keys)
       IN  IF ~alive
           THEN /\ flight' = [flight EXCEPT ![c] = NextPattern(flight[c])]
                /\ UNCHANGED store
           ELSE /\ store' = done.store
                /\ flight' = Noted([flight EXCEPT ![c] =
                                        NextPattern([flight[c] EXCEPT
                                            !.total = flight[c].total + done.ret,
                                            !.gone = flight[c].gone
                                                \cup (flight[c].keys \cap DOMAIN store)])],
                                    c, FALSE, flight[c].keys)
    /\ UNCHANGED << client, alive, db, dbUp, last, kbVars, accounts, users, held, now >>

\* return total_deleted (of delete_pattern: return deleted)
PurgeReturn(c) ==
    /\ flight[c].pc = "done"
    /\ flight[c].op \in { "invalidate", "delete_pattern" }
    /\ last' = Op(flight[c].op,
                  IF flight[c].op = "delete_pattern" THEN flight[c].req[1] ELSE <<>>,
                  flight[c].req, PyNone, PyInt(flight[c].total),
                  IF flight[c].op = "delete_pattern"
                  THEN flight[c].req
                  ELSE patterns_to_delete(flight[c].req[1], flight[c].req[2],
                                          flight[c].req[3]),
                  flight[c].gone, FALSE)
    /\ flight' = [flight EXCEPT ![c] = Idle]
    /\ UNCHANGED << client, alive, store, db, dbUp, kbVars, accounts, users, held, now >>

\* get_catalog up to the result of cache.get: a hit is answered at once, a
\* miss leaves the caller before its SELECT.
ReadBegin(c, game_title, behavior_name, user_id, limit) ==
    LET cache_key == CatalogKey(game_title, behavior_name, user_id, limit)
        got == cache_get(store, cache_key)
        req == << game_title, behavior_name, user_id, PyInt(limit) >>
        began == Op("get_catalog", cache_key, req, PyNone, PyNone, <<>>,
                    DOMAIN store \ DOMAIN got.store, FALSE)
    IN  /\ flight[c].pc = "idle"
        /\ IF Truthy(got.ret)
           THEN /\ get_catalog_hit(began, got)
                /\ UNCHANGED flight
           ELSE /\ store' = got.store
                /\ flight' = [flight EXCEPT ![c] =
                                 [Idle EXCEPT !.pc = "query", !.op = "get_catalog",
                                              !.req = req, !.key = cache_key,
                                              !.snap = store]]
                /\ UNCHANGED << client, alive, db, dbUp, last >>
        /\ UNCHANGED << kbVars, accounts, users, held, now >>

\* get_catalog from get_db_connection() to cur.fetchall()
ReadQuery(c) ==
    /\ flight[c].pc = "query"
    /\ IF ~dbUp
       THEN /\ last' = [Op("get_catalog", flight[c].key, flight[c].req, PyNone,
                           PyNone, <<>>, {}, FALSE)
                        EXCEPT !.status = 500, !.err = T(E_NoCursor),
                               !.body = ErrorBody(E_NoCursor)]
            /\ flight' = [flight EXCEPT ![c] = Idle]
       ELSE /\ flight' = [flight EXCEPT ![c] =
                             [flight[c] EXCEPT
                                 !.pc = "set",
                                 !.rows = RunQuery(db, flight[c].req[1],
                                              flight[c].req[2], flight[c].req[3],
                                              flight[c].req[4].n)]]
            /\ UNCHANGED last
    /\ UNCHANGED << client, alive, store, db, dbUp, kbVars, accounts, users, held, now >>

\* get_catalog from response_data to the return: cache.set, the annotations
ReadStore(c) ==
    /\ flight[c].pc = "set"
    /\ LET req == flight[c].req
           response_data == ResponseData(flight[c].rows, req[1], req[2], req[3],
                                         req[4].n)
           saved == cache_set(store, flight[c].key, response_data, CacheTtl)
           response == MissAnnotated(response_data, flight[c].key, saved.ret)
       IN  /\ store' = saved.store
           /\ last' = [Op("get_catalog", flight[c].key, req, PyNone, response,
                          <<>>, {}, FALSE)
                       EXCEPT !.status = 200, !.dbq = TRUE,
                              !.body = CatalogResponse(response)]
    /\ flight' = [flight EXCEPT ![c] = Idle]
    /\ UNCHANGED << client, alive, db, dbUp, kbVars, accounts, users, held, now >>

vars ==
    << client, alive, store, db, dbUp, last, kbNs, kbF1, kbF2, kbKey1, kbKey2, kbDone,
       flight, accounts, users, held, now >>

\* ----------------------------------------------------------------- inputs

\* Largest number of rows of user_behaviors.
MaxRows == 1

\* GET /catalog requests: << game_title, behavior_name, user_id, limit >>
ReadRequests ==
    { << PyNone, PyNone, PyNone, DefaultLimit >>,
      << PyStr(S_Portal), PyNone, PyNone, DefaultLimit >>,
      << PyStr(S_port), PyNone, PyNone, DefaultLimit >>,
      << PyNone, PyStr(S_play), PyNone, DefaultLimit >>,
      << PyNone, PyNone, PyInt(0), DefaultLimit >> }

\* A token whose signature does not verify.
ForgedToken == [AdminToken EXCEPT !.signed = FALSE]

\* An admin token past its exp claim.
ExpiredToken == [AdminToken EXCEPT !.expired = TRUE, !.exp = 0]

\* A token signed with the same secret by another issuer.
ForeignToken == [AdminToken EXCEPT !.iss = T("other-issuer")]

\* A token of this issuer whose is_admin claim is false.
UserToken == [AdminToken EXCEPT !.is_admin = PyBool(FALSE)]

\* A well-formed body of POST /catalog
GoodItem == << PyInt(1), PyStr(S_Portal), PyStr(S_play), PyDec(150) >>

\* POST /catalog requests: << credentials, << user_id, game_title,
\* behavior_name, value >> >>; a member the body lacks is None.
CreateRequests ==
    { << AdminToken, GoodItem >>,
      << AdminToken, << PyInt(1), PyStr(<<>>), PyStr(S_play), PyDec(150) >> >> }

\* POST /catalog requests that are refused before the handler opens a
\* connection to the database.
RefusedRequests ==
    { << AdminToken, << PyInt(1), PyStr(S_Portal), PyStr(<<>>), PyDec(150) >> >>,
      << AdminToken, << PyInt(1), PyNone, PyStr(S_play), PyDec(150) >> >>,
      << AdminToken, << PyInt(1), PyStr(S_Portal), PyNone, PyDec(150) >> >>,
      << AdminToken, << PyInt(1), PyStr(S_Portal), PyStr(S_play), PyDec(0) >> >>,
      << AdminToken, << PyInt(1), PyStr(S_Portal), PyStr(S_play), PyDec(0 - 150) >> >>,
      << NoCredentials, GoodItem >>,
      << ForgedToken, GoodItem >>,
      << ExpiredToken, GoodItem >>,
      << ForeignToken, GoodItem >>,
      << UserToken, GoodItem >> }

\* Arguments of invalidate_catalog_cache: << game_title, behavior_name, user_id >>
InvalidateArgs ==
    { << PyStr(S_Portal), PyStr(S_play), PyInt(1) >>,
      << PyNone, PyNone, PyNone >>,
      << PyStr(<<>>), PyNone, PyInt(0) >> }

\* Payloads handed to RedisCache.set
Payloads ==
    { PyDict(<<>>),
      PyDict(<< PyItem(T("total"), PyInt(1)),
                PyItem(T("data"), PyList(<< PyStr(S_Portal) >>)) >>),
      PyDict(<< PyItem(T("value"), PyDec(150)) >>) }

\* Keys handed to RedisCache.set and RedisCache.get
AdapterKeys ==
    { S_catalog_all, S_ns \o << ":" >> \o S_all,
      CatalogKey(PyStr(S_Portal), PyNone, PyNone, DefaultLimit) }

Ttls == { 0, CacheTtl }

\* Patterns handed to RedisCache.delete_pattern
Patterns ==
    { S_catalog \o << ":", "*" >>, S_catalog_all,
      FieldPattern(S_game_title, PyStr(S_Portal)) }

\* Texts another client of the Redis server leaves under a key
ForeignTexts == { NotJson, EmptyText }

S_secret == << "s", "e", "c", "r", "e", "t" >>

\* The accounts of the identity provider at start: an administrator, a
\* user, a user whose row is not active, and an account with no row in
\* table users.
SeedAccounts ==
    { [email |-> T("admin@steamapi.com"), password |-> S_secret, uid |-> T("uid-admin")],
      [email |-> T("user@steamapi.com"), password |-> S_secret, uid |-> T("uid-user")],
      [email |-> T("off@steamapi.com"), password |-> S_secret, uid |-> T("uid-off")],
      [email |-> T("ghost@steamapi.com"), password |-> S_secret, uid |-> T("uid-ghost")] }

\* The rows of table users at start; is_admin is set by the operator of the
\* database, no endpoint changes it.
SeedUsers ==
    << [id |-> 1, firebase_uid |-> T("uid-admin"), email |-> T("admin@steamapi.com"),
        is_active |-> TRUE, is_admin |-> TRUE],
       [id |-> 2, firebase_uid |-> T("uid-user"), email |-> T("user@steamapi.com"),
        is_active |-> TRUE, is_admin |-> FALSE],
       [id |-> 3, firebase_uid |-> T("uid-off"), email |-> T("off@steamapi.com"),
        is_active |-> FALSE, is_admin |-> TRUE] >>

\* Largest number of commands of other callers a call in progress sees.
MaxEvents == 2

\* The last minute of the clock.
MaxClock == 3

\* POST /auth/login requests: << email, password >>
LoginRequests ==
    { << T("admin@steamapi.com"), S_secret >>,
      << T("admin@steamapi.com"), << "w", "r", "o", "n", "g", "1" >> >>,
      << T("admin@steamapi.com"), << "a", "b", "c" >> >>,
      << T("user@steamapi.com"), S_secret >>,
      << T("off@steamapi.com"), S_secret >>,
      << T("ghost@steamapi.com"), S_secret >>,
      << T("nobody@steamapi.com"), S_secret >> }

\* Arguments of invalidate_catalog_cache, a title that ends in a question
\* mark among them
FrameArgs ==
    InvalidateArgs
        \cup { << PyStr(S_Portal \o << "?" >>), PyStr(S_play), PyInt(1) >> }

\* Titles that hold a character the KEYS command reads as part of a glob,
\* and one that holds none
GlobTitles ==
    { S_Portal, << "[", "P", "]" >>, << "P", "*" >>, << "P", "?" >>,
      << "P", "\\", "l" >> }

\* GET /catalog requests that filter on one of GlobTitles
GlobRequests ==
    { << PyStr(t), PyNone, PyNone, DefaultLimit >> : t \in GlobTitles }
        \cup { << PyStr(<< "[", "P", "]" >>), PyStr(S_play), PyInt(1),
                  DefaultLimit >> }

\* Arguments of invalidate_catalog_cache for a record titled by one of
\* GlobTitles
GlobArgs == { << PyStr(t), PyStr(S_port), PyInt(8) >> : t \in GlobTitles }

\* GET /catalog requests with a limit of their own
LimitRequests ==
    { << PyNone, PyNone, PyNone, limit >> :
         limit \in { 0 - 1, 0, 1, DefaultLimit, DefaultLimit + 1 } }

\* POST /auth/signup requests: << email, password >>
SignupRequests ==
    { << T("new@steamapi.com"), S_secret >>,
      << T("admin@steamapi.com"), S_secret >>,
      << T("new@steamapi.com"), << "a", "b", "c" >> >> }

\* GET /catalog requests of callers that run together with writes
RaceRequests ==
    { << PyNone, PyNone, PyNone, DefaultLimit >>,
      << PyStr(S_Portal), PyNone, PyNone, DefaultLimit >> }

\* Keys set while delete_pattern runs
BatchKeys ==
    { S_catalog_all, CatalogKey(PyStr(S_Portal), PyNone, PyNone, DefaultLimit) }

\* GET /catalog requests whose keys the patterns of two purges share
OverlapRequests ==
    { << PyStr(S_port), PyNone, PyInt(1), DefaultLimit >>,
      << PyNone, PyNone, PyInt(1), DefaultLimit >>,
      << PyNone, PyNone, PyNone, DefaultLimit >> }

\* Arguments of two invalidate_catalog_cache calls that run together
OverlapArgs ==
    { << PyStr(S_port), PyNone, PyNone >>,
      << PyNone, PyNone, PyInt(1) >>,
      << PyStr(S_port), PyStr(S_play), PyInt(1) >> }

\* ------------------------------------------------------------ transitions

Init ==
    /\ client \in { "redis", "none" }
    /\ alive = (client = "redis")
    /\ store = EmptyStore
    /\ db = <<>>
    /\ dbUp = TRUE
    /\ last = NoOp("init")
    /\ kbNs = S_catalog
    /\ kbF1 = <<>>
    /\ kbF2 = <<>>
    /\ kbKey1 = <<>>
    /\ kbKey2 = <<>>
    /\ kbDone = TRUE
    /\ flight = [c \in Callers |-> Idle]
    /\ accounts = SeedAccounts
    /\ users = SeedUsers
    /\ held = NoCredentials
    /\ now = 0

GetCatalog ==
    /\ \E r \in ReadRequests : get_catalog(r[1], r[2], r[3], r[4])
    /\ UNCHANGED << kbVars, runVars >>

CreateCatalogItem ==
    /\ \E r \in CreateRequests :
          create_catalog_item(r[1], r[2][1], r[2][2], r[2][3], r[2][4])
    /\ Len(db') <= MaxRows
    /\ UNCHANGED << kbVars, runVars >>

\* POST /catalog with a request of RefusedRequests
RefusedWrite ==
    /\ \E r \in RefusedRequests :
          create_catalog_item(r[1], r[2][1], r[2][2], r[2][3], r[2][4])
    /\ UNCHANGED << kbVars, runVars >>

InvalidateCatalogCache ==
    /\ \E a \in InvalidateArgs :
          LET done == invalidate_catalog_cache(store, a[1], a[2], a[3])
          IN  /\ store' = done.store
              /\ last' = [Op("invalidate", <<>>, a, PyNone, PyInt(done.ret),
                             patterns_to_delete(a[1], a[2], a[3]),
                             DOMAIN store \ DOMAIN done.store, FALSE)
                          EXCEPT !.exc = done.exc]
    /\ UNCHANGED << client, alive, db, dbUp >>
    /\ UNCHANGED << kbVars, runVars >>

CacheSet ==
    /\ \E k \in AdapterKeys, v \in Payloads, ttl \in Ttls :
          LET done == cache_set(store, k, v, ttl)
          IN  /\ store' = done.store
              /\ last' = [Op("set", k, << PyInt(ttl) >>, v, PyBool(done.ret),
                             <<>>, {}, FALSE)
                          EXCEPT !.exc = done.exc]
    /\ UNCHANGED << client, alive, db, dbUp >>
    /\ UNCHANGED << kbVars, runVars >>

\* chain: the operation before was a set of the same key that Redis took; arg
\* then holds the payload of that set
CacheGet ==
    /\ \E k \in AdapterKeys :
          LET chain == last.op = "set" /\ last.key = k /\ Truthy(last.ret)
              done == cache_get(store, k)
          IN  /\ store' = done.store
              /\ last' = [Op("get", k, <<>>, IF chain THEN last.arg ELSE PyNone,
                             done.ret, <<>>, DOMAIN store \ DOMAIN done.store,
                             chain)
                          EXCEPT !.exc = done.exc]
    /\ UNCHANGED << client, alive, db, dbUp >>
    /\ UNCHANGED << kbVars, runVars >>

CacheDelete ==
    /\ \E k \in AdapterKeys :
          LET done == cache_delete(store, k)
          IN  /\ store' = done.store
              /\ last' = [Op("delete", k, <<>>, PyNone, PyBool(done.ret), <<>>,
                             DOMAIN store \ DOMAIN done.store, FALSE)
                          EXCEPT !.exc = done.exc]
    /\ UNCHANGED << client, alive, db, dbUp >>
    /\ UNCHANGED << kbVars, runVars >>

\* chain: the operation before was a delete_pattern of the same pattern; arg
\* then holds the count that call returned
DeletePattern ==
    /\ \E p \in Patterns :
          LET done == delete_pattern(store, p)
              chain == last.op = "delete_pattern" /\ last.key = p
          IN  /\ store' = done.store
              /\ last' = [Op("delete_pattern", p, <<>>,
                             IF chain THEN last.ret ELSE PyNone, PyInt(done.ret),
                             << p >>, DOMAIN store \ DOMAIN done.store, chain)
                          EXCEPT !.exc = done.exc]
    /\ UNCHANGED << client, alive, db, dbUp >>
    /\ UNCHANGED << kbVars, runVars >>

CacheStats ==
    /\ LET done == get_cache_stats(store)
       IN  /\ store' = done.store
           /\ last' = [Op("stats", <<>>, <<>>, PyNone, done.ret, <<>>, {}, FALSE)
                       EXCEPT !.exc = done.exc]
    /\ UNCHANGED << client, alive, db, dbUp >>
    /\ UNCHANGED << kbVars, runVars >>

FlushAll ==
    /\ LET done == flush_all(store)
       IN  /\ store' = done.store
           /\ last' = [Op("flush_all", <<>>, <<>>, PyNone, PyBool(done.ret), <<>>,
                          DOMAIN store \ DOMAIN done.store, FALSE)
                       EXCEPT !.exc = done.exc]
    /\ UNCHANGED << client, alive, db, dbUp >>
    /\ UNCHANGED << kbVars, runVars >>

\* Redis drops a key whose time to live has run out.
Expire ==
    /\ \E k \in DOMAIN store : store' = StoreDrop(store, {k})
    /\ last' = NoOp("expire")
    /\ UNCHANGED << client, alive, db, dbUp >>
    /\ UNCHANGED << kbVars, runVars >>

\* Another client of the Redis server sets a key to a text that is not a
\* JSON document, with no time to live.
ForeignWrite ==
    /\ alive
    /\ \E k \in AdapterKeys, text \in ForeignTexts :
          store' = StorePut(store, k, [data |-> text, ttl |-> 0 - 1])
    /\ last' = NoOp("foreign")
    /\ UNCHANGED << client, alive, db, dbUp >>
    /\ UNCHANGED << kbVars, runVars >>

StoreDown ==
    /\ alive
    /\ alive' = FALSE
    /\ last' = NoOp("down")
    /\ UNCHANGED << client, store, db, dbUp >>
    /\ UNCHANGED << kbVars, runVars >>

StoreUp ==
    /\ ~alive
    /\ alive' = TRUE
    /\ last' = NoOp("up")
    /\ UNCHANGED << client, store, db, dbUp >>
    /\ UNCHANGED << kbVars, runVars >>

\* psycopg2.connect starts to fail.
DbDown ==
    /\ dbUp
    /\ dbUp' = FALSE
    /\ last' = NoOp("db_down")
    /\ UNCHANGED << client, alive, store, db >>
    /\ UNCHANGED << kbVars, runVars >>

DbUp ==
    /\ ~dbUp
    /\ dbUp' = TRUE
    /\ last' = NoOp("db_up")
    /\ UNCHANGED << client, alive, store, db >>
    /\ UNCHANGED << kbVars, runVars >>

\* The service: the catalog handlers, the purge they are written to call,
\* and the environment.
Next ==
    \/ GetCatalog
    \/ CreateCatalogItem
    \/ InvalidateCatalogCache
    \/ Expire
    \/ StoreDown
    \/ StoreUp

Spec == Init /\ [][Next]_vars

\* The writes, accepted and refused, over a cache that reads fill.
WriteNext ==
    \/ GetCatalog
    \/ CreateCatalogItem
    \/ RefusedWrite
    \/ StoreDown
    \/ StoreUp

SpecWrite == Init /\ [][WriteNext]_vars

\* The handlers while Redis and the database come and go.
OutageNext ==
    \/ GetCatalog
    \/ CreateCatalogItem
    \/ StoreDown
    \/ StoreUp
    \/ DbDown
    \/ DbUp

SpecOutage == Init /\ [][OutageNext]_vars

\* The adapter alone: calls of the operations of RedisCache.
AdapterNext ==
    \/ CacheSet
    \/ CacheGet
    \/ CacheDelete
    \/ DeletePattern
    \/ InvalidateCatalogCache
    \/ CacheStats
    \/ FlushAll
    \/ ForeignWrite
    \/ Expire
    \/ StoreDown
    \/ StoreUp

SpecAdapter == Init /\ [][AdapterNext]_vars

\* An adapter operation called while Redis is out of reach.
DegradedGet == ~Reached /\ CacheGet

DegradedSet == ~Reached /\ CacheSet

DegradedDelete == ~Reached /\ CacheDelete

DegradedDeletePattern == ~Reached /\ DeletePattern

\* The service, with adapter calls made while Redis is out of reach.
DegradedNext ==
    \/ GetCatalog
    \/ CreateCatalogItem
    \/ DegradedGet
    \/ DegradedSet
    \/ DegradedDelete
    \/ DegradedDeletePattern
    \/ StoreDown
    \/ StoreUp

SpecDegraded == Init /\ [][DegradedNext]_vars

\* Reads over a keyspace that other clients write to.
HealNext ==
    \/ GetCatalog
    \/ CacheGet
    \/ ForeignWrite
    \/ StoreDown
    \/ StoreUp

SpecHeal == Init /\ [][HealNext]_vars

\* GET /catalog while no purge is in progress
QuietRead ==
    /\ AllIdle
    /\ \E r \in OverlapRequests : get_catalog(r[1], r[2], r[3], r[4])
    /\ UNCHANGED << kbVars, runVars >>

\* A caller enters invalidate_catalog_cache.
InvalidateBegin ==
    \E c \in Callers, a \in OverlapArgs :
       PurgeBegin(c, "invalidate", a, patterns_to_delete(a[1], a[2], a[3]))

EnumerateKeys == \E c \in Callers : PurgeKeys(c)

DeleteKeys == \E c \in Callers : PurgeDel(c)

ReturnCount == \E c \in Callers : PurgeReturn(c)

\* Two purges that run together over a cache that reads have filled.
PurgeNext ==
    \/ QuietRead
    \/ InvalidateBegin
    \/ EnumerateKeys
    \/ DeleteKeys
    \/ ReturnCount

SpecPurge == Init /\ [][PurgeNext]_vars

\* cache.set by a caller of its own, at any moment; the calls in progress
\* note it.
SetMeanwhile ==
    /\ \A c \in Callers : Len(flight[c].log) < MaxEvents
    /\ \E k \in BatchKeys :
          LET done == cache_set(store, k, PyDict(<<>>), CacheTtl)
          IN  /\ store' = done.store
              /\ last' = Op("set", k, << PyInt(CacheTtl) >>, PyDict(<<>>),
                            PyBool(done.ret), <<>>, {}, FALSE)
              /\ flight' = IF done.ret THEN Noted(flight, 0, TRUE, {k}) ELSE flight
    /\ UNCHANGED << client, alive, db, dbUp, kbVars, accounts, users, held, now >>

\* A caller enters delete_pattern.
DeletePatternBegin ==
    \E c \in Callers, p \in Patterns :
       PurgeBegin(c, "delete_pattern", << p >>, << p >>)

\* delete_pattern called by two callers while a third sets keys.
BatchNext ==
    \/ SetMeanwhile
    \/ DeletePatternBegin
    \/ EnumerateKeys
    \/ DeleteKeys
    \/ ReturnCount

SpecBatch == Init /\ [][BatchNext]_vars

\* GET /catalog, its Redis and database commands taken one by one
GetCatalogBegin ==
    \E c \in Callers, r \in RaceRequests : ReadBegin(c, r[1], r[2], r[3], r[4])

GetCatalogQuery == \E c \in Callers : ReadQuery(c)

GetCatalogStore == \E c \in Callers : ReadStore(c)

\* Reads of two callers that run together with writes.
RaceNext ==
    \/ GetCatalogBegin
    \/ GetCatalogQuery
    \/ GetCatalogStore
    \/ CreateCatalogItem

SpecRace == Init /\ [][RaceNext]_vars

GetCacheStats ==
    /\ get_cache_stats_route
    /\ UNCHANGED << kbVars, runVars >>

DeleteCacheClear ==
    /\ \E pattern \in { PyNone } \cup { PyStr(p) : p \in Patterns } :
          clear_cache_route(pattern)
    /\ UNCHANGED << kbVars, runVars >>

\* The application with requests for the cache administration.
AdminNext ==
    \/ GetCatalog
    \/ GetCacheStats
    \/ DeleteCacheClear
    \/ StoreDown
    \/ StoreUp

SpecAdmin == Init /\ [][AdminNext]_vars

Login ==
    /\ \E r \in LoginRequests : login(r[1], r[2])
    /\ UNCHANGED << kbVars, flight, now >>

\* POST /catalog with the credential the client holds
HeldWrite ==
    /\ create_catalog_item(Presented(held), GoodItem[1], GoodItem[2], GoodItem[3],
                           GoodItem[4])
    /\ Len(db') <= MaxRows
    /\ UNCHANGED << kbVars, runVars >>

\* A minute passes.
Tick ==
    /\ now < MaxClock
    /\ now' = now + 1
    /\ last' = NoOp("tick")
    /\ UNCHANGED << client, alive, store, db, dbUp, kbVars, flight, accounts,
                    users, held >>

\* Logins, and writes with the credential a login minted, as time passes.
LoginNext ==
    \/ Login
    \/ HeldWrite
    \/ Tick
    \/ DbDown
    \/ DbUp

SpecLogin == Init /\ [][LoginNext]_vars

\* invalidate_catalog_cache for a record of any title
InvalidateFramed ==
    /\ \E a \in FrameArgs :
          LET done == invalidate_catalog_cache(store, a[1], a[2], a[3])
          IN  /\ store' = done.store
              /\ last' = Op("invalidate", <<>>, a, PyNone, PyInt(done.ret),
                            patterns_to_delete(a[1], a[2], a[3]),
                            DOMAIN store \ DOMAIN done.store, FALSE)
    /\ UNCHANGED << client, alive, db, dbUp >>
    /\ UNCHANGED << kbVars, runVars >>

\* POST /catalog while the database fails the statement or the commit
FailedWrite ==
    /\ \E r \in CreateRequests \cup RefusedRequests, fault \in InsertFaults :
          create_catalog_item_with(r[1], r[2][1], r[2][2], r[2][3], r[2][4],
                                   fault)
    /\ UNCHANGED << kbVars, runVars >>

\* The writes, with every way they fail, over a cache that reads fill.
CommitNext ==
    \/ QuietRead
    \/ CreateCatalogItem
    \/ RefusedWrite
    \/ FailedWrite
    \/ DbDown
    \/ DbUp
    \/ StoreDown
    \/ StoreUp

SpecCommit == Init /\ [][CommitNext]_vars

\* The purge over a keyspace that reads and other clients fill.
FrameNext ==
    \/ GetCatalog
    \/ ForeignWrite
    \/ InvalidateFramed
    \/ StoreDown
    \/ StoreUp

SpecFrame == Init /\ [][FrameNext]_vars

\* GET /catalog filtered on a title of GlobTitles
GetCatalogGlob ==
    /\ \E r \in GlobRequests : get_catalog(r[1], r[2], r[3], r[4])
    /\ UNCHANGED << kbVars, runVars >>

\* invalidate_catalog_cache for a record titled by one of GlobTitles
InvalidateWritten ==
    /\ \E a \in GlobArgs :
          LET done == invalidate_catalog_cache(store, a[1], a[2], a[3])
          IN  /\ store' = done.store
              /\ last' = Op("invalidate", <<>>, a, PyNone, PyInt(done.ret),
                            patterns_to_delete(a[1], a[2], a[3]),
                            DOMAIN store \ DOMAIN done.store, FALSE)
    /\ UNCHANGED << client, alive, db, dbUp >>
    /\ UNCHANGED << kbVars, runVars >>

\* Reads filtered on a title and purges for a record of that title.
GlobNext ==
    \/ GetCatalogGlob
    \/ InvalidateWritten

SpecGlob == Init /\ [][GlobNext]_vars

GetCatalogLimited ==
    /\ \E r \in LimitRequests : get_catalog(r[1], r[2], r[3], r[4])
    /\ UNCHANGED << kbVars, runVars >>

\* Reads with a limit, over a table that writes fill.
LimitNext ==
    \/ GetCatalogLimited
    \/ CreateCatalogItem
    \/ Expire
    \/ StoreDown
    \/ StoreUp

SpecLimit == Init /\ [][LimitNext]_vars

Signup ==
    /\ \E r \in SignupRequests : signup(r[1], r[2])
    /\ UNCHANGED << kbVars, flight, now >>

HealthCheck ==
    /\ health_check
    /\ UNCHANGED << kbVars, runVars >>

\* Every endpoint of the application while the database comes and goes.
ErrorsNext ==
    \/ GetCatalogLimited
    \/ CreateCatalogItem
    \/ Signup
    \/ Login
    \/ GetCacheStats
    \/ DeleteCacheClear
    \/ HealthCheck
    \/ DbDown
    \/ DbUp

SpecErrors == Init /\ [][ErrorsNext]_vars

\* The key builder alone: the service is idle.
KeySysInit ==
    /\ client = "redis"
    /\ alive = TRUE
    /\ store = EmptyStore
    /\ db = <<>>
    /\ dbUp = TRUE
    /\ last = NoOp("init")
    /\ flight = [c \in Callers |-> Idle]
    /\ accounts = SeedAccounts
    /\ users = SeedUsers
    /\ held = NoCredentials
    /\ now = 0

KeyNext == \E f2 \in Mappings : BuildKeys(f2)

KeySpecInit == KeyInit /\ KeySysInit

SpecKey == KeySpecInit /\ [][KeyNext]_vars

\* ================================================================= claims

\* Both callers are at the return of invalidate_catalog_cache.
BothPurged ==
    \A c \in Callers : flight[c].pc = "done" /\ flight[c].op = "invalidate"

\* The keyspace when the second of the two calls began.
LaterSnap ==
    IF Cardinality(DOMAIN flight[1].snap) <= Cardinality(DOMAIN flight[2].snap)
    THEN flight[1].snap
    ELSE flight[2].snap

\* invalidate_catalog_cache(a) and then invalidate_catalog_cache(b), each run
\* to its end
OneAfterTheOther(st, a, b) ==
    invalidate_catalog_cache(
        invalidate_catalog_cache(st, a[1], a[2], a[3]).store, b[1], b[2], b[3]).store

MatchedBy(a, k) ==
    \E i \in 1..Len(patterns_to_delete(a[1], a[2], a[3])) :
       GlobMatch(patterns_to_delete(a[1], a[2], a[3])[i], k)

\* C21: when two invalidate_catalog_cache calls have run together, their
\* KEYS and DEL steps interleaved in any way and no read or set in between,
\* the cache is what running one call after the other leaves, in either
\* order: on a connected store no key that a pattern of either call matches
\* is left, and every other key is there with its entry.
C21_ConcurrentPurgesCommute ==
    BothPurged =>
        /\ store = OneAfterTheOther(LaterSnap, flight[1].req, flight[2].req)
        /\ store = OneAfterTheOther(LaterSnap, flight[2].req, flight[1].req)
        /\ \A k \in DOMAIN LaterSnap :
              IF MatchedBy(flight[1].req, k) \/ MatchedBy(flight[2].req, k)
              THEN Reached => k \notin DOMAIN store
              ELSE k \in DOMAIN store /\ store[k] = LaterSnap[k]
        /\ DOMAIN store \subseteq DOMAIN LaterSnap

\* Two calls that ran together: each removed a key the other one found in
\* the cache when it began, and a key no pattern matches is in the cache.
C21_Witness ==
    /\ BothPurged
    /\ flight[1].gone \cap DOMAIN flight[2].snap # {}
    /\ flight[2].gone \cap DOMAIN flight[1].snap # {}
    /\ store # EmptyStore

\* C22: no staleness after invalidation under concurrency: whenever no write
\* is between its commit and the end of its purge, an entry cached under the
\* key of a read holds the response the database gives that read now: no
\* entry whose filters a committed record satisfies was computed from a
\* database state that precedes the commit.
C22_NoStaleEntry ==
    \A f \in RaceRequests :
       (Reached /\ CatalogKey(f[1], f[2], f[3], f[4]) \in DOMAIN store)
           => store[CatalogKey(f[1], f[2], f[3], f[4])].data
                 = json_dumps(ResponseData(RunQuery(db, f[1], f[2], f[3], f[4]),
                                           f[1], f[2], f[3], f[4]))

\* C24: the application serves the cache administration: DELETE /cache/clear
\* without a pattern answers 200, leaves no key matching catalog:* on a
\* connected store and reports the number of keys it removed; GET
\* /cache/stats answers 200 with the statistics of the adapter.
C24_CacheAdminServed ==
    /\ (last.op = "clear_cache" /\ last.req = << PyNone >>)
          => /\ last.status = 200
             /\ last.io => redis_keys(store, DefaultPattern) = {}
             /\ Lookup(last.body, T("keys_deleted"))
                   = PyInt(Cardinality(last.removed))
    /\ last.op = "cache_stats"
          => /\ last.status = 200
             /\ Lookup(last.body, T("stats")) = get_cache_stats(store).ret

\* The identity provider accepts the credentials of the last login.
ProviderAccepted == ProviderUid(last.req[1], last.req[2]) # <<>>

\* C25: when the identity provider accepts the credentials and table users
\* has no active row for that identity, POST /auth/login answers 404; when the
\* provider rejects the credentials it answers 401.
C25_LoginNotFound ==
    (last.op = "login" /\ last.status # 422 /\ last.dbup)
        => /\ (ProviderAccepted
                  /\ ActiveUsers(ProviderUid(last.req[1], last.req[2])) = <<>>)
                 => last.status = 404
           /\ ~ProviderAccepted => last.status = 401

\* C26: a login answered 200 carries custom_jwt exactly when the active row
\* of the user is flagged admin, and an active admin whom the provider
\* accepts is answered 200; POST /catalog with a token a login minted is not
\* refused for its credential while the clock is before the token's exp, and
\* is answered 401 from exp on.
C26_AdminCredential ==
    /\ (last.op = "login" /\ last.status # 422 /\ last.dbup /\ ProviderAccepted)
          => LET found == ActiveUsers(ProviderUid(last.req[1], last.req[2]))
             IN  /\ last.status = 200 <=> found # <<>>
                 /\ last.status = 200
                       => /\ Lookup(last.body, T("custom_jwt")) # PyNone
                               <=> found[1].is_admin
                          /\ last.cred.present <=> found[1].is_admin
                          /\ last.cred.present
                               => /\ last.cred = held
                                  /\ last.cred.exp = now + JWT_EXPIRE_MINUTES
                                  /\ verify_custom_admin_token(last.cred).status = 200
    /\ (last.op = "create" /\ last.cred.present)
          => /\ now < last.cred.exp => last.status \notin { 401, 403 }
             /\ now >= last.cred.exp => last.status = 401

\* A write with a minted token is refused in the minute the token expires,
\* after a write with a minted token was accepted.
C26_Witness ==
    /\ last.op = "create"
    /\ last.cred.present
    /\ last.status = 401
    /\ now = last.cred.exp
    /\ Len(db) = 1

\* C27: at every endpoint an exception the handler did not raise itself is
\* answered with status 500 and a detail that does not contain the text of
\* the exception.
C27_UnexpectedIsGeneric500 ==
    last.err # <<>>
        => /\ last.status = 500
           /\ ~Contains(Lookup(last.body, T("detail")).s, last.err)

\* C28: a read with limit > 10000 is answered 422 with no statement run and
\* no key removed; a read with any other limit that reaches the database
\* runs a statement the database accepts and is answered 200; the total of a
\* read answered 200 is at most its limit and at most 10000.
C28_LimitCapped ==
    last.op = "get_catalog"
        => /\ last.req[4].n > 10000
                 => last.status = 422 /\ ~last.dbq /\ last.removed = {}
           /\ (last.req[4].n <= 10000 /\ last.dbup /\ ~last.hit)
                 => last.status = 200 /\ last.dbq /\ last.err = <<>>
           /\ last.status = 200
                 => /\ Lookup(last.body, T("total")).n <= last.req[4].n
                    /\ Lookup(last.body, T("total")).n <= 10000

\* The key k is catalog:all, or holds game_title=t, behavior_name=b or
\* user_id=u after the prefix catalog:
NamedBy(k, a) ==
    \/ k = S_catalog_all
    \/ /\ Len(k) > Len(S_catalog)
       /\ SubSeq(k, 1, Len(S_catalog) + 1) = S_catalog \o << ":" >>
       /\ \/ Contains(SubSeq(k, Len(S_catalog) + 2, Len(k)),
                      S_game_title \o << "=" >> \o PyFormat(a[1]))
          \/ Contains(SubSeq(k, Len(S_catalog) + 2, Len(k)),
                      S_behavior_name \o << "=" >> \o PyFormat(a[2]))
          \/ Contains(SubSeq(k, Len(S_catalog) + 2, Len(k)),
                      S_user_id \o << "=" >> \o PyFormat(a[3]))

\* C29: invalidate_catalog_cache(t, b, u) leaves in place, with its entry,
\* every key that is not catalog:all and does not hold game_title=t,
\* behavior_name=b or user_id=u after the prefix catalog:, keys outside the
\* namespace catalog: included; it adds no key and changes no entry.
C29_InvalidationFrame ==
    [][ last'.op = "invalidate"
          => /\ \A k \in DOMAIN store :
                   ~NamedBy(k, last'.req)
                       => k \in DOMAIN store' /\ store'[k] = store[k]
             /\ \A k \in DOMAIN store' :
                   k \in DOMAIN store /\ store'[k] = store[k] ]_vars

\* The request r filters on the value the purge a was given for one of its
\* fields.
FiltersOnWritten(r, a) ==
    \/ Truthy(a[1]) /\ r[1] = a[1]
    \/ Truthy(a[2]) /\ r[2] = a[2]
    \/ Truthy(a[3]) /\ r[3] = a[3]

\* C31: after invalidate_catalog_cache(t, b, u) the store holds no key that
\* generate_cache_key builds for a filter set with game_title = t,
\* behavior_name = b or user_id = u, whatever characters the value holds.
C31_WrittenValueIsPurged ==
    last.op = "invalidate"
        => \A r \in GlobRequests :
              FiltersOnWritten(r, last.req)
                  => CatalogKey(r[1], r[2], r[3], r[4]) \notin DOMAIN store

\* The identity provider has an account for the email.
HasAccount(accts, email) == \E a \in accts : a.email = email

\* Table users has an active, non-admin row for the email.
HasUserRow(rows, email) ==
    \E i \in 1..Len(rows) :
       rows[i].email = email /\ rows[i].is_active /\ ~rows[i].is_admin

\* C32: a step of POST /auth/signup, answered 200 or not, creates the
\* account at the identity provider and the active, non-admin row of table
\* users for the email together, or creates neither.
C32_SignupAllOrNothing ==
    [][ last'.op = "signup"
          => ( (HasAccount(accounts', last'.req[1])
                  /\ ~HasAccount(accounts, last'.req[1]))
               <=> (HasUserRow(users', last'.req[1])
                      /\ ~HasUserRow(users, last'.req[1])) ) ]_vars

\* The dict d has an item called name.
HasItem(d, name) == \E i \in 1..Len(d.c) : d.c[i].s = name

\* The characters of the name of an item of filters_applied
FilterField(name) ==
    CASE name = T("game_title") -> S_game_title
      [] name = T("behavior_name") -> S_behavior_name
      [] name = T("user_id") -> S_user_id
      [] OTHER -> S_limit

\* generate_cache_key("catalog", filters_applied)
KeyOfFilters(filters_applied) ==
    generate_cache_key(S_catalog,
        [i \in 1..Len(filters_applied.c) |->
            << FilterField(filters_applied.c[i].s), filters_applied.c[i].c[1] >>])

\* The entry under key k is a read response without annotations whose
\* filters give back k and whose total counts its data.
EntryWellFormed(k) ==
    LET entry == json_loads(store[k].data)
    IN  /\ entry.t = "dict"
        /\ HasItem(entry, T("filters_applied"))
        /\ Lookup(entry, T("filters_applied")).t = "dict"
        /\ KeyOfFilters(Lookup(entry, T("filters_applied"))) = k
        /\ ~HasItem(entry, T("cache_info"))
        /\ ~HasItem(entry, T("telemetry_info"))
        /\ Lookup(entry, T("data")).t = "list"
        /\ Lookup(entry, T("total")) = PyInt(Len(Lookup(entry, T("data")).c))

\* C33: every entry of the store is the response of a read miss: its
\* filters_applied gives back the key it is stored under, it has no
\* cache_info and no telemetry_info, and its total is the length of its
\* data; and only a read answered from the database creates or rewrites an
\* entry.
C33_CacheContent ==
    /\ [](\A k \in DOMAIN store : EntryWellFormed(k))
    /\ [][ (\E k \in DOMAIN store' :
               k \in DOMAIN store => store'[k].data # store[k].data)
            => /\ last'.op = "get_catalog"
               /\ ~last'.hit
               /\ last'.dbq
               /\ last'.status = 200 ]_vars

\* A read miss has stored a response that holds a row, under a key with a
\* filter
C33_Witness ==
    /\ last.op = "get_catalog"
    /\ ~last.hit
    /\ last.key \in DOMAIN store
    /\ last.key = CatalogKey(PyStr(S_port), PyNone, PyNone, DefaultLimit)
    /\ Lookup(json_loads(store[last.key].data), T("total")) = PyInt(1)

\* The operations of RedisCache
AdapterOps ==
    { "get", "set", "delete", "delete_pattern", "invalidate", "stats", "flush_all" }

\* C34: self.client is set at construction and never again.  An adapter
\* that did not connect answers every get with None, every set with False
\* and deletes nothing, while the server answers too; an adapter that
\* connected reaches the server in every call made while the server answers,
\* whatever outages came before: a set is stored, a get returns the entry,
\* a purge removes the keys that match.
C34_ConnectivityDecidedOnce ==
    [][ /\ client' = client
        /\ client = "none"
              => /\ last'.op = "get" => last'.ret = PyNone
                 /\ last'.op = "set" => last'.ret = PyBool(FALSE)
                 /\ last'.op = "delete" => last'.ret = PyBool(FALSE)
                 /\ last'.op \in { "delete_pattern", "invalidate" }
                       => last'.ret = PyInt(0)
                 /\ last'.op \in AdapterOps => store' = store
        /\ (client = "redis" /\ alive)
              => /\ (last'.op = "set" /\ last'.req[1].n > 0)
                       => /\ last'.ret = PyBool(TRUE)
                          /\ last'.key \in DOMAIN store'
                          /\ store'[last'.key].data = json_dumps(last'.arg)
                 /\ (last'.op = "get" /\ last'.key \in DOMAIN store
                       /\ store[last'.key].data \notin ForeignTexts)
                       => last'.ret = json_loads(store[last'.key].data)
                 /\ last'.op = "delete_pattern"
                       => /\ last'.ret
                               = PyInt(Cardinality(redis_keys(store, last'.key)))
                          /\ redis_keys(store', last'.key) = {} ]_vars

\* An adapter that did not connect is asked to purge keys that the server,
\* reachable by now, holds; it deletes nothing.
C34_Witness ==
    /\ client = "none"
    /\ alive
    /\ last.op = "delete_pattern"
    /\ redis_keys(store, last.key) # {}
    /\ last.ret = PyInt(0)

\* delete(key): True exactly when the key was there and is gone, False for
\* a key that was not there and for a store out of reach, every other key
\* left as it was.
DeleteOneKey ==
    last'.op = "delete"
        => /\ last'.ret = PyBool(last'.key \in DOMAIN store
                                   /\ last'.key \notin DOMAIN store')
           /\ (last'.key \notin DOMAIN store \/ ~Reached)
                 => last'.ret = PyBool(FALSE)
           /\ (last'.key \in DOMAIN store /\ Reached)
                 => last'.ret = PyBool(TRUE)
           /\ \A k \in (DOMAIN store \cup DOMAIN store') \ { last'.key } :
                 /\ k \in DOMAIN store
                 /\ k \in DOMAIN store'
                 /\ store'[k] = store[k]

\* delete_pattern(p) returns the number of keys that matched p and leaves
\* no key that matches p.
DeleteAllMatching ==
    /\ last'.ret = PyInt(Cardinality(redis_keys(store, last'.key)))
    /\ redis_keys(store', last'.key) = {}

\* C35 as stated: delete(key) returns True exactly when the key was there
\* and has been removed, False when it was not or the store is out of
\* reach, and leaves the other keys as they were; delete_pattern(p), with no
\* other command in between, returns the number of keys that matched p
\* before the call and leaves none that matches p.
C35_DeleteSemantics ==
    [][ /\ DeleteOneKey
        /\ last'.op = "delete_pattern" => DeleteAllMatching ]_vars

\* C35 amended: the same for delete(key); delete_pattern(p) returns the
\* number of keys that matched p and leaves none that matches p while the
\* store is reachable, and returns 0 and removes nothing while it is not.
C35_DeleteSemanticsWhileReachable ==
    [][ /\ DeleteOneKey
        /\ last'.op = "delete_pattern"
              => IF Reached
                 THEN DeleteAllMatching
                 ELSE last'.ret = PyInt(0) /\ store' = store ]_vars

\* A delete_pattern over a reachable store that removed the two keys that
\* matched and left a third
C35_Witness ==
    /\ last.op = "delete_pattern"
    /\ last.io
    /\ last.ret = PyInt(2)
    /\ Cardinality(last.removed) = 2
    /\ DOMAIN store # {}

\* C30: a step of POST /catalog removes cache keys only if it commits the
\* new record; a step that commits no record (the credentials or the body
\* are refused, no connection, the INSERT or the commit raises) leaves every
\* cache entry in place and is answered with an error status.
C30_PurgeOnlyAfterCommit ==
    [][ last'.op = "create"
          => /\ store' # store
                   => /\ Len(db') = Len(db) + 1
                      /\ last'.status = 200
             /\ db' = db
                   => /\ store' = store
                      /\ last'.removed = {}
                      /\ last'.status \in { 400, 401, 403, 422, 500 } ]_vars

\* A write whose commit raised, over a cache that holds entries
C30_Witness ==
    /\ last.op = "create"
    /\ last.err = T(E_Commit)
    /\ last.status = 500
    /\ last.dbq
    /\ DOMAIN store # {}

\* The keys in the store after the commands of log, from the keys in dom.
RECURSIVE Replay(_, _)
Replay(dom, log) ==
    IF log = <<>> THEN dom
    ELSE Replay(IF Head(log).set THEN dom \cup Head(log).keys
                ELSE dom \ Head(log).keys,
                Tail(log))

\* The call of caller c, taken as one step after the first i commands of
\* the other callers: the keys that match then.
MatchedAt(c, i) ==
    { k \in Replay(DOMAIN flight[c].snap, SubSeq(flight[c].log, 1, i)) :
         GlobMatch(flight[c].req[1], k) }

\* C23: delete_pattern is one indivisible step for its concurrent callers:
\* when it returns on a connected store there is a moment between its call
\* and its return such that the count it returns is the number of keys that
\* matched the pattern at that moment, and the store holds what removing
\* those keys at that moment, followed by the later commands of the other
\* callers, leaves: a matching key in the store was set after the operation.
C23_DeletePatternIsOneStep ==
    \A c \in Callers :
       (flight[c].pc = "done" /\ flight[c].op = "delete_pattern" /\ Reached)
           => \E i \in 0..Len(flight[c].log) :
                 /\ flight[c].total = Cardinality(MatchedAt(c, i))
                 /\ DOMAIN store
                      = Replay(Replay(DOMAIN flight[c].snap,
                                      SubSeq(flight[c].log, 1, i)) \ MatchedAt(c, i),
                               SubSeq(flight[c].log, i + 1, Len(flight[c].log)))

\* The record written, as invalidate_catalog_cache is handed it.
IsRecord(a) == a[1].t = "str" /\ a[2].t = "str" /\ a[3].t = "int"

RecordRow(a) ==
    [id |-> 0, user_id |-> a[3].n, game_title |-> a[1].s,
     behavior_name |-> a[2].s, value |-> 100]

\* C1: invalidation never under-invalidates: after
\* invalidate_catalog_cache(r.game_title, r.behavior_name, r.user_id) has run
\* on a connected store, no key that GET /catalog builds for a filter set
\* whose database predicate r satisfies is left in the cache.
C1_NeverUnderInvalidates ==
    (last.op = "invalidate" /\ last.io /\ IsRecord(last.req))
        => \A f \in ReadRequests :
              RowMatches(RecordRow(last.req), f[1], f[2], f[3])
                  => CatalogKey(f[1], f[2], f[3], f[4]) \notin DOMAIN store

\* C2: a successful POST /catalog with game_title = t and behavior_name = b,
\* run while the store is connected, leaves neither catalog:all nor a key
\* containing game_title=t or behavior_name=b in the cache.
C2_WritePurges ==
    (last.op = "create" /\ last.ret = PyInt(200) /\ last.io)
        => /\ S_catalog_all \notin DOMAIN store
           /\ \A k \in DOMAIN store :
                 /\ ~Contains(k, S_game_title \o << "=" >> \o last.req[2].s)
                 /\ ~Contains(k, S_behavior_name \o << "=" >> \o last.req[3].s)

\* C3: generate_cache_key is order-independent and null-insensitive: two
\* mappings with the same set of non-null entries get the same key under one
\* namespace.
C3_OrderAndNullInsensitive ==
    (kbDone /\ NonNull(kbF1) = NonNull(kbF2)) => kbKey1 = kbKey2

\* C3 witness: the same two non-null entries inserted in opposite orders.
C3_Witness ==
    /\ kbDone
    /\ Cardinality(NonNull(kbF1)) = 2
    /\ NonNull(kbF1) = NonNull(kbF2)
    /\ kbF1[1] = kbF2[2]
    /\ kbF1[2] = kbF2[1]
    /\ kbKey1 = kbKey2

\* C4: generate_cache_key is injective on effective filter sets: two mappings
\* whose sets of non-null entries differ get different keys.
C4_Injective ==
    (kbDone /\ NonNull(kbF1) # NonNull(kbF2)) => kbKey1 # kbKey2

\* C5: the key of the empty mapping and of a mapping whose values are all
\* null is exactly "<ns>:all".
C5_AllKey ==
    kbDone =>
        /\ NonNull(kbF1) = {} => kbKey1 = kbNs \o << ":", "a", "l", "l" >>
        /\ NonNull(kbF2) = {} => kbKey2 = kbNs \o << ":", "a", "l", "l" >>

\* C5 witness: the empty mapping and a non-empty mapping of nulls.
C5_Witness ==
    /\ kbDone
    /\ kbF1 = <<>>
    /\ Len(kbF2) = 2
    /\ NonNull(kbF2) = {}
    /\ kbKey2 = kbNs \o << ":", "a", "l", "l" >>

\* The arrangements of the non-null entries of f, each once, ascending by
\* field name.
Ascending(f) ==
    { e \in [1..Cardinality(NonNull(f)) -> NonNull(f)] :
        \A i, j \in 1..Cardinality(NonNull(f)) :
            i < j => StrLess(e[i][1], e[j][1]) }

\* field=value&field=value of the entries e
RECURSIVE Pairs(_)
Pairs(e) ==
    IF Len(e) = 1 THEN e[1][1] \o << "=" >> \o PyFormat(e[1][2])
    ELSE e[1][1] \o << "=" >> \o PyFormat(e[1][2]) \o << "&" >> \o Pairs(Tail(e))

Key_Portal_10000 ==
    << "c", "a", "t", "a", "l", "o", "g", ":",
       "g", "a", "m", "e", "_", "t", "i", "t", "l", "e", "=",
       "P", "o", "r", "t", "a", "l", "&",
       "l", "i", "m", "i", "t", "=", "1", "0", "0", "0", "0" >>

IsPortal10000(f) ==
    NonNull(f) = { << S_game_title, PyStr(S_Portal) >>, << S_limit, PyInt(10000) >> }

C7_NoFilterKey ==
    (last.op = "get_catalog"
        /\ last.req = << PyNone, PyNone, PyNone, PyInt(10000) >>)
        => last.key = << "c", "a", "t", "a", "l", "o", "g", ":", "a", "l", "l" >>

InSeq(x, seq) == \E i \in 1..Len(seq) : seq[i] = x

InvalidateFields == << S_game_title, S_behavior_name, S_user_id >>

\* C8: invalidate_catalog_cache always purges catalog:all; for each argument
\* that is not null (user_id = 0 and the empty string included) it purges
\* catalog:*<field>=<value>*, and for a null argument it purges no pattern.
C8_PatternsForNonNull ==
    last.op = "invalidate" =>
        /\ InSeq(S_catalog_all, last.pats)
        /\ \A i \in 1..3 :
              (last.req[i].t # "none")
                  <=> InSeq(S_catalog \o << ":", "*" >> \o InvalidateFields[i]
                                \o << "=" >> \o PyFormat(last.req[i]) \o << "*" >>,
                            last.pats)
        /\ Len(last.pats)
               = 1 + Cardinality({ i \in 1..3 : last.req[i].t # "none" })

\* C9 as claimed: on a connected store, get(k) right after set(k, v, ttl)
\* with ttl > 0 returns a value equal to v.
C9_RoundTripEqual ==
    (last.op = "get" /\ last.chain /\ last.io) => last.ret = last.arg

\* v with every Decimal in it replaced by the str of the Decimal
RECURSIVE Stringified(_)
Stringified(v) ==
    IF v.t = "dec" THEN [t |-> "str", n |-> 0, s |-> v.s, c |-> <<>>]
    ELSE [v EXCEPT !.c = [i \in 1..Len(v.c) |-> Stringified(v.c[i])]]

\* C9 as amended: on a connected store, get(k) right after set(k, v, ttl)
\* with ttl > 0 returns v with every Decimal replaced by its str text: a
\* value equal to v when v holds JSON-native values only, the empty payload
\* included.
C9_RoundTripStringified ==
    (last.op = "get" /\ last.chain /\ last.io)
        => /\ last.ret = Stringified(last.arg)
           /\ last.arg = PyDict(<<>>) => last.ret = PyDict(<<>>)

\* C9 witness: a payload holding a Decimal came back with the Decimal as text.
C9_Witness ==
    /\ last.op = "get"
    /\ last.chain
    /\ last.io
    /\ last.arg = PyDict(<< PyItem(T("value"), PyDec(150)) >>)
    /\ last.ret = PyDict(<< PyItem(T("value"), PyStr(<< "1", ".", "5", "0" >>)) >>)

\* C10: delete_pattern is idempotent: called again right after a call with
\* the same pattern it returns 0 and removes nothing; a call that matches no
\* key returns 0.
C10_DeletePatternIdempotent ==
    last.op = "delete_pattern" =>
        /\ last.chain => (last.ret = PyInt(0) /\ last.removed = {})
        /\ redis_keys(store, last.key) \cup
           { k \in last.removed : GlobMatch(last.key, k) } = {}
               => last.ret = PyInt(0)

\* C10 witness: the first call removed a key, the second ran on a connected
\* store.
C10_Witness ==
    /\ last.op = "delete_pattern"
    /\ last.chain
    /\ last.io
    /\ last.arg.t = "int"
    /\ last.arg.n >= 1
    /\ last.ret = PyInt(0)

\* The rows of the database a read with these arguments selects, as the
\* response body holds them.
BodyRows(req) ==
    LET results == RunQuery(db, req[1], req[2], req[3], req[4].n)
    IN  PyList([i \in 1..Len(results) |-> CatalogItemOf(RowDict(results[i]))])

\* C11: while Redis is out of reach get returns None, set and delete return
\* False, delete_pattern returns 0, and a catalog read, the database being
\* reachable, is answered 200 with the rows of the database and hit = false.
C11_Degradation ==
    ~last.io =>
        /\ last.op = "get" => last.ret = PyNone
        /\ last.op = "set" => last.ret = PyBool(FALSE)
        /\ last.op = "delete" => last.ret = PyBool(FALSE)
        /\ last.op = "delete_pattern" => last.ret = PyInt(0)
        /\ (last.op = "get_catalog" /\ last.dbup) =>
              /\ last.status = 200
              /\ last.dbq
              /\ Lookup(Lookup(last.body, T("cache_info")), T("hit")) = PyBool(FALSE)
              /\ Lookup(last.body, T("data")) = BodyRows(last.req)
              /\ Lookup(last.body, T("total")) = PyInt(Len(BodyRows(last.req).c))

\* C11 witness: a read answered from the database while the key it uses sits
\* in a Redis that does not answer.
C11_Witness ==
    /\ last.op = "get_catalog"
    /\ client = "redis"
    /\ ~last.io
    /\ last.key \in DOMAIN store
    /\ Len(db) = 1
    /\ last.status = 200
    /\ Lookup(last.body, T("total")) = PyInt(1)
    /\ Lookup(Lookup(last.body, T("cache_info")), T("hit")) = PyBool(FALSE)

\* C12: no operation of RedisCache lets an exception out; when a Redis
\* command fails the operation returns its miss / False / 0 result, and
\* get_cache_stats returns an object whose status is not "connected".
C12_NoExceptionEscapes ==
    last.op \in AdapterOps =>
        /\ ~last.exc
        /\ ~last.io =>
              /\ last.op = "get" => last.ret = PyNone
              /\ last.op \in { "set", "delete", "flush_all" }
                    => last.ret = PyBool(FALSE)
              /\ last.op \in { "delete_pattern", "invalidate" }
                    => last.ret = PyInt(0)
              /\ last.op = "stats"
                    => /\ last.ret.t = "dict"
                       /\ Lookup(last.ret, T("status")).t = "str"
                       /\ Lookup(last.ret, T("status")) # PyStr(T("connected"))

\* C12 witness: the statistics asked of a connected adapter whose server has
\* stopped answering, with keys in it.
C12_Witness ==
    /\ last.op = "stats"
    /\ client = "redis"
    /\ ~alive
    /\ store # EmptyStore
    /\ Lookup(last.ret, T("status")) = PyStr(T("error"))

\* C13: when the text under key k does not deserialize, get(k) on a connected
\* store returns None, k is gone from the store afterwards and every other key
\* is as it was.
C13_GetHealsUndecodable ==
    [][(/\ last'.op = "get"
        /\ last'.io
        /\ last'.key \in DOMAIN store
        /\ store[last'.key].data \in { NotJson, EmptyText })
          => /\ last'.ret = PyNone
             /\ store' = StoreDrop(store, { last'.key })]_vars

\* C14: a cache hit is answered 200 with the cached payload, annotated with
\* hit = true and the key, with no statement run on the database and with the
\* cache and the database left as they were.
C14_HitIsReadOnly ==
    [][(last'.op = "get_catalog" /\ last'.hit)
          => /\ last'.status = 200
             /\ ~last'.dbq
             /\ store' = store
             /\ db' = db
             /\ last'.key \in DOMAIN store
             /\ last'.ret =
                    WithItem(json_loads(store[last'.key].data), T("cache_info"),
                        PyDict(<< PyItem(T("hit"), PyBool(TRUE)),
                                  PyItem(T("key"), PyStr(last'.key)) >>))]_vars

\* C14 witness: a hit served while the database is out of reach and holds a
\* row the cached payload does not have.
C14_Witness ==
    /\ last.op = "get_catalog"
    /\ last.hit
    /\ last.status = 200
    /\ ~dbUp
    /\ Len(db) = 1
    /\ Lookup(last.ret, T("total")) = PyInt(0)

\* C15: a miss with Redis and the database reachable runs the query, stores
\* the response under the key of its filters with a time to live of 3600
\* seconds and answers with hit = false; the same read made next is a hit
\* with the same total and data.
C15_MissStoresThenHits ==
    /\ (last.op = "get_catalog" /\ ~last.hit /\ last.io /\ last.dbup) =>
          /\ last.status = 200
          /\ last.dbq
          /\ Lookup(Lookup(last.ret, T("cache_info")), T("hit")) = PyBool(FALSE)
          /\ last.key = CatalogKey(last.req[1], last.req[2], last.req[3],
                                   last.req[4].n)
          /\ last.key \in DOMAIN store
          /\ store[last.key].ttl = 3600
          /\ store[last.key].data =
                 json_dumps(
                     ResponseData(RunQuery(db, last.req[1], last.req[2],
                                           last.req[3], last.req[4].n),
                                  last.req[1], last.req[2], last.req[3],
                                  last.req[4].n))
    /\ (last.op = "get_catalog" /\ last.chain) =>
          /\ last.hit
          /\ last.status = 200
          /\ Lookup(last.body, T("total")) = Lookup(last.arg, T("total"))
          /\ Lookup(last.body, T("data")) = Lookup(last.arg, T("data"))

\* C15 witness: the second of two equal reads, a hit that returns the one
\* row the first read found.
C15_Witness ==
    /\ last.op = "get_catalog"
    /\ last.chain
    /\ last.hit
    /\ Lookup(last.body, T("total")) = PyInt(1)
    /\ Lookup(last.arg, T("total")) = PyInt(1)
    /\ Lookup(Lookup(last.body, T("data")).c[1], T("value")) = PyDec(150)

\* The predicate of the filters a key encodes: one for each parameter that
\* is not null.
SuppliedMatches(row, game_title, behavior_name, user_id) ==
    /\ game_title.t # "none" => ILike(row.game_title, game_title.s)
    /\ behavior_name.t # "none" => row.behavior_name = behavior_name.s
    /\ user_id.t # "none" => row.user_id = user_id.n

\* C16: the response a miss computes and caches under its key holds exactly
\* the rows that satisfy the filter of every supplied parameter (null apart,
\* user_id = 0 and the empty text included), in id order.
C16_QueryFiltersAsKey ==
    (last.op = "get_catalog" /\ ~last.hit /\ last.status = 200) =>
        Lookup(last.ret, T("data")) =
            LET rows == SelectSeq(db, LAMBDA row :
                            SuppliedMatches(row, last.req[1], last.req[2],
                                            last.req[3]))
            IN  PyList([i \in 1..Len(rows) |-> RowDict(rows[i])])

\* A body the write must refuse: value 0 or negative, or game_title or
\* behavior_name missing or empty.
BadBody(item) ==
    \/ item[4].t = "dec" /\ item[4].n <= 0
    \/ item[2] \in { PyNone, PyStr(<<>>) }
    \/ item[3] \in { PyNone, PyStr(<<>>) }

\* C17: a POST /catalog whose value is 0 or negative, or whose game_title or
\* behavior_name is missing or empty, is answered with a status of the 4xx
\* class and leaves the database and the cache as they were.
C17_InvalidWriteRejected ==
    [][(last'.op = "create" /\ BadBody(last'.req))
          => /\ last'.status \in 400..499
             /\ db' = db
             /\ store' = store]_vars

\* C17 witness: a body with value 0 sent by an admin, refused while the cache
\* holds a key.
C17_Witness ==
    /\ last.op = "create"
    /\ last.cred = AdminToken
    /\ last.req[4] = PyDec(0)
    /\ last.status = 422
    /\ store # EmptyStore

\* C18: a write whose row was inserted and committed is answered 200 with
\* the created record, whatever the state of Redis.
C18_CommittedWriteSucceeds ==
    [][(last'.op = "create" /\ db' # db)
          => /\ last'.status = 200
             /\ db' = Append(db, db'[Len(db')])
             /\ Lookup(last'.body, T("success")) = PyBool(TRUE)
             /\ Lookup(last'.body, T("item")) = RowDict(db'[Len(db')])]_vars

\* C18 witness: a write committed while the connected adapter's server does
\* not answer and the cache holds keys.
C18_Witness ==
    /\ last.op = "create"
    /\ last.status = 200
    /\ client = "redis"
    /\ ~alive
    /\ store # EmptyStore
    /\ Len(db) = 1

\* C19: POST /catalog without a credential is answered 401; with a token
\* that is forged, expired or of another issuer, 401; with a valid token that
\* lacks the admin flag, 403; none of these inserts a row or purges a key, so
\* a row is inserted only for a valid admin token.
C19_WriteNeedsAdmin ==
    [][last'.op = "create" =>
          /\ ~last'.cred.present => last'.status = 401
          /\ (/\ last'.cred.present
              /\ \/ ~last'.cred.signed
                 \/ last'.cred.expired
                 \/ last'.cred.iss # T("custom-admin-jwt"))
                => last'.status = 401
          /\ (/\ last'.cred.present
              /\ last'.cred.signed
              /\ ~last'.cred.expired
              /\ last'.cred.iss = T("custom-admin-jwt")
              /\ last'.cred.is_admin # PyBool(TRUE))
                => last'.status = 403
          /\ last'.status \in { 401, 403 } => (db' = db /\ store' = store)
          /\ db' # db
                => /\ last'.cred.present
                   /\ last'.cred.signed
                   /\ ~last'.cred.expired
                   /\ last'.cred.iss = T("custom-admin-jwt")
                   /\ last'.cred.is_admin = PyBool(TRUE)]_vars

\* C19 witness: a well-formed body sent with a valid token that lacks the
\* admin flag, refused with 403 while the cache holds a key.
C19_Witness ==
    /\ last.op = "create"
    /\ last.cred = UserToken
    /\ last.req = GoodItem
    /\ last.status = 403
    /\ db = <<>>
    /\ store # EmptyStore

\* A write that passes authorization and validation.
Admitted(op) ==
    /\ op.op = "create"
    /\ verify_custom_admin_token(op.cred).status = 200
    /\ ~BadBody(op.req)

\* C20: with the database out of reach, a read that misses the cache and an
\* admitted write are answered 500 and write nothing to the cache (nor to the
\* database); with only Redis out of reach the same requests are answered
\* 200 from the database.
C20_UpstreamAsymmetry ==
    [][/\ ((last'.op = "get_catalog" /\ ~last'.hit) \/ Admitted(last'))
             => IF last'.dbup
                THEN last'.status = 200 /\ last'.dbq
                ELSE last'.status = 500 /\ store' = store /\ db' = db
       /\ (last'.op = "get_catalog" /\ ~last'.io /\ last'.dbup)
             => Lookup(last'.body, T("data")) = BodyRows(last'.req)]_vars

\* C20 witness: a read that misses a reachable Redis while the database is
\* out of reach, answered 500.
C20_Witness ==
    /\ last.op = "get_catalog"
    /\ last.io
    /\ ~last.dbup
    /\ ~last.hit
    /\ last.status = 500
    /\ last.key \notin DOMAIN store
    /\ Len(db) = 1

====
